---- MODULE Spec2Model ----
(***************************************************************************)
(* A model of todo-cli (bagadi-alnour/todo-cli): the interactive list      *)
(* session, the id-or-index resolution of the todo store, the doctor       *)
(* command and the CLI / web operations that write todos.json.             *)
(*                                                                         *)
(* The module holds several specifications over one set of variables:      *)
(*   Spec       the interactive session of `todo list` (runInteractiveList)*)
(*   SpecFind   FindTodoByIDOrIndex applied to bounded inputs              *)
(*   SpecDoctor `todo doctor [--fix]` on bounded stores                    *)
(*   SpecOps    CLI add/edit/status/done and the web API on one store      *)
(* A specification leaves the variables of the others at their idle value. *)
(***************************************************************************)
EXTENDS Integers, Sequences, FiniteSets, TLC

(***************************************************************************)
(* Bounds of the model.                                                    *)
(***************************************************************************)
\* largest collection a session, a lookup or a store starts from
MaxTodos == 3
\* the logical clock (time.Now) stops advancing here
MaxTime == 1
\* longest todo ID and longest id-or-index token of a lookup
MaxIdLen == 6
\* most todos the store of the CLI and web operations grows to
MaxStore == 1

\* the keys pressed in a session read byte by byte
MaxPresses == 2
MaxDepth == 3
MaxRaw == 2

(***************************************************************************)
(* types.go: the status enumeration and Todo.Toggle.                       *)
(***************************************************************************)
StatusOpen == "open"
StatusDone == "done"
StatusBlocked == "blocked"
StatusWaiting == "waiting"
StatusTechDebt == "tech-debt"

ValidStatuses == {StatusOpen, StatusDone, StatusBlocked, StatusWaiting, StatusTechDebt}

StatusIsValid(s) == s \in ValidStatuses

MarkDone(t, now) == [t EXCEPT !.status = StatusDone, !.updatedAt = now]

MarkOpen(t, now) == [t EXCEPT !.status = StatusOpen, !.updatedAt = now]

\* a toggle that reopens every todo that is not open
Toggle_ReopensOthers(t, now) ==
    IF t.status = StatusOpen THEN MarkDone(t, now) ELSE MarkOpen(t, now)

Toggle(t, now) == IF t.status = StatusDone THEN MarkOpen(t, now) ELSE MarkDone(t, now)

(***************************************************************************)
(* storage: DeleteTodo, FilterTodosByStatus, SaveTodos.  Positions are     *)
(* 0-based as in the Go code; TLA+ sequences are 1-based.                  *)
(***************************************************************************)
\* a DeleteTodo that removes the last element for an index past the end
DeleteTodo_ClampsIndex(ts, index) ==
    IF index < 0 \/ Len(ts) = 0
    THEN ts
    ELSE IF index >= Len(ts)
    THEN SubSeq(ts, 1, Len(ts) - 1)
    ELSE SubSeq(ts, 1, index) \o SubSeq(ts, index + 2, Len(ts))

\* a DeleteTodo that removes the element after the one asked for
DeleteTodo_OffByOne(ts, index) ==
    IF index < 0 \/ index >= Len(ts)
    THEN ts
    ELSE SubSeq(ts, 1, index + 1) \o SubSeq(ts, index + 3, Len(ts))

DeleteTodo(ts, index) ==
    IF index < 0 \/ index >= Len(ts)
    THEN ts
    ELSE SubSeq(ts, 1, index) \o SubSeq(ts, index + 2, Len(ts))

FilterTodosByStatus(ts, status) == SelectSeq(ts, LAMBDA t : t.status = status)

\* The file after SaveTodos(ts) on a file holding d: os.WriteFile either
\* replaces the content or fails (here: the file cannot be opened for
\* writing and keeps its content).
SaveTodos(ok, ts, d) == IF ok THEN ts ELSE d

(***************************************************************************)
(* storage: FindTodoByIndex and FindTodoByIDOrIndex.  A string is the      *)
(* sequence of its characters; a lookup returns the 0-based position of    *)
(* the todo it found, -1 for (nil, -1).                                    *)
(***************************************************************************)
\* the shortest token the ID loop accepts as a prefix
MinPrefixLen == 4

DecimalDigits == <<"0", "1", "2", "3", "4", "5", "6", "7", "8", "9">>

IsDigit(c) == \E d \in 1..Len(DecimalDigits) : DecimalDigits[d] = c

DigitVal(c) == (CHOOSE d \in 1..Len(DecimalDigits) : DecimalDigits[d] = c) - 1

\* how many characters at the front of s are decimal digits
RECURSIVE ScanNumber(_)
ScanNumber(s) ==
    IF s = <<>> \/ ~IsDigit(Head(s)) THEN 0 ELSE 1 + ScanNumber(Tail(s))

\* the value of a sequence of decimal digits
RECURSIVE ParseInt(_)
ParseInt(ds) ==
    IF ds = <<>> THEN 0 ELSE 10 * ParseInt(SubSeq(ds, 1, Len(ds) - 1)) + DigitVal(ds[Len(ds)])

\* fmt.Sscanf(s, "%d", &index): an optional sign, then the longest run of
\* decimal digits; what follows the digits is left unread and is no error.
\* No digit at that place is an error and leaves index at 0.  (Tokens here
\* have no leading blanks and stay far below the 64-bit range.)
Sscanf(s) ==
    LET signed == s # <<>> /\ Head(s) \in {"+", "-"}
        body == IF signed THEN Tail(s) ELSE s
        n == ScanNumber(body)
        value == ParseInt(SubSeq(body, 1, n))
    IN IF n = 0
       THEN [err |-> TRUE, index |-> 0]
       ELSE [err |-> FALSE, index |-> IF signed /\ Head(s) = "-" THEN 0 - value ELSE value]

\* a FindTodoByIndex that takes its argument as a 0-based position
FindTodoByIndex_ZeroBased(ts, index) ==
    IF index >= 0 /\ index < Len(ts) THEN index ELSE -1

FindTodoByIndex(ts, index) ==
    LET idx == index - 1
    IN IF idx >= 0 /\ idx < Len(ts) THEN idx ELSE -1

\* the condition of the ID loop: equal, or the token has at least 4
\* characters and the ID starts with it
IDMatches(id, idOrIndex) ==
    \/ id = idOrIndex
    \/ /\ Len(idOrIndex) >= MinPrefixLen
       /\ Len(id) >= Len(idOrIndex)
       /\ SubSeq(id, 1, Len(idOrIndex)) = idOrIndex

FindTodoByIDOrIndex(ts, idOrIndex) ==
    LET scanned == Sscanf(idOrIndex)
        byIndex == IF ~scanned.err THEN FindTodoByIndex(ts, scanned.index) ELSE -1
        hits == {i \in 1..Len(ts) : IDMatches(ts[i].id, idOrIndex)}
    IN IF byIndex # -1
       THEN byIndex
       ELSE IF hits = {}
            THEN -1
            ELSE (CHOOSE i \in hits : \A j \in hits : i <= j) - 1

(***************************************************************************)
(* State.                                                                  *)
(***************************************************************************)
VARIABLES
    disk,               \* the todos persisted in .todos/todos.json
    todos,              \* runInteractiveList: the working copy
    selectedIndex,      \* runInteractiveList: the cursor (0-based)
    showDeleteConfirm,  \* runInteractiveList: the confirmation flag
    pc,                 \* where the `todo list` process is
    rawMode,            \* the terminal is in raw mode
    altScreen,          \* the terminal shows the alternate screen
    now,                \* the clock read by time.Now()
    target,             \* id under the cursor when the delete key was pressed
    saveErr,            \* the last SaveTodos call of the session returned an error
    saved,              \* the collection handed to that call
    findTodos,          \* FindTodoByIDOrIndex: the collection it is called with
    idOrIndex,          \* FindTodoByIDOrIndex: the token it is called with
    found,              \* FindTodoByIDOrIndex: the position it returned
    findPc,             \* where the caller of FindTodoByIDOrIndex is
    doctorFix,          \* runDoctor: the --fix flag
    fixes,              \* runDoctor: the doctorFixReport of applyDoctorFixes
    doctorPc,           \* where the `todo doctor` process is
    doctorRet,          \* runDoctor: what it returned
    cmd,                \* the CLI command or web request handled last
    cmdRet,             \* what it returned: "ok", or "error"
    cmdIdx,             \* the position (1-based) of the todo it saved, 0 if none
    stdin,              \* ReadKey: the bytes typed and not yet read
    readPc,             \* ReadKey: "first" at Read(buf[:1]), "rest" at Read(buf[1:3])
    lastTyped,          \* the key the user pressed last
    presses,            \* how many keys the user has pressed
    delTodos,           \* DeleteTodo: the slice it is called with
    delIndex,           \* DeleteTodo: the index it is called with
    delOut,             \* DeleteTodo: the slice it returned
    delPc,              \* where the caller of DeleteTodo is
    webOp,              \* the two concurrent web requests: what each asks for
    webPc,              \* where the handler of each is: "start", "loaded", "done"
    webCopy,            \* the slice each handler holds after LoadTodos and its change
    webRet,             \* what each handler answered: "none", "ok", "error"
    webTrace,           \* the loads and saves of the handlers in the order they happened
    webStore0,          \* the collection in the file before the two requests
    marker,             \* `todo init`: the directory .todos exists
    config,             \* `todo init`: config.json, <<>> when there is no file
    initForce,          \* `todo init`: the --force flag of the last run
    initIo,             \* `todo init`: the step of the last run that hit an I/O error
    initRet,            \* InitProject: the error it returned, "none" for nil
    initBefore,         \* the project directory before the last run
    exitCode,           \* the exit status of the last run, -1 before any
    initPc,             \* "idle", "shell" before a run, "done" after one
    addNoGit,           \* `todo add`: the --no-git flag
    autoGit,            \* `todo add`: config.AutoGit
    defaultBranch,      \* `todo add`: config.DefaultBranch, "" when not set
    isRepo,             \* `todo add`: git.IsGitRepo()
    headBranch,         \* what GetCurrentBranch gives: "err" for an error
    headCommit,         \* what GetCurrentCommit gives: "err" for an error
    addContext,         \* the branch and commit of the todo `todo add` built
    gitPc,              \* "idle", "call" before the git block of runAdd, "done" after it
    fixTodos,           \* applyDoctorFixes: the collection it is called with
    fixCleaned,         \* applyDoctorFixes: the collection it returned
    fixReport,          \* applyDoctorFixes: the doctorFixReport it returned
    fixAgain,           \* applyDoctorFixes on fixCleaned: what it returned
    fixPc,              \* "idle", "call", "once" after one call, "twice" after the second
    fltTodos,           \* a filter: the collection it is called with
    fltKind,            \* which filter is called: "status", "path", "branch"
    fltArg,             \* a filter: its second argument, in the field of its kind
    fltOut,             \* a filter: the collection it returned
    fltPc,              \* "idle", "call", "done"
    rtTodos,            \* SaveTodos: the collection it is called with
    rtFile,             \* todos.json as a JSON document, or no file
    rtLoaded,           \* LoadTodos: the collection and the error it returned
    rtPc,               \* "idle", "save", "saved", "load", "loaded", "reloaded"
    startPath,          \* FindProjectRoot: its argument and the directory it names
    markers,            \* what .todos is in each ancestor of that directory, by depth
    current,            \* FindProjectRoot: the directory being looked at
    rootRet,            \* FindProjectRoot: what it returned
    rootPc,             \* "idle", "abs", "loop", "done"
    npRaw,              \* normalizePaths: the --path values it is called with
    npOut,              \* normalizePaths: what it returned
    npOther,            \* what it returned for the same paths written otherwise
    npAgain,            \* what it returned for its own result
    npPc,               \* "idle", "call", "done", "other", "twice"
    rdBefore,           \* runDelete: todos.json when the command started
    rdTarget,           \* runDelete: the 0-based position FindTodoByIDOrIndex gave, -1 if none
    rdOut,              \* runDelete: the error it returned and the text it printed
    rdPc                \* "idle", "call", "done"

sessVars == <<disk, todos, selectedIndex, showDeleteConfirm, pc, rawMode, altScreen,
              now, target, saveErr, saved>>

findVars == <<findTodos, idOrIndex, found, findPc>>

doctorVars == <<doctorFix, fixes, doctorPc, doctorRet>>

cmdVars == <<cmd, cmdRet, cmdIdx>>

keyVars == <<stdin, readPc, lastTyped, presses>>

delVars == <<delTodos, delIndex, delOut, delPc>>

webVars == <<webOp, webPc, webCopy, webRet, webTrace, webStore0>>

initVars == <<marker, config, initForce, initIo, initRet, initBefore, exitCode, initPc>>

rdVars == <<rdBefore, rdTarget, rdOut, rdPc>>

npVars == <<npRaw, npOut, npOther, npAgain, npPc>>

rootVars == <<startPath, markers, current, rootRet, rootPc>>

rtVars == <<rtTodos, rtFile, rtLoaded, rtPc>>

fltVars == <<fltTodos, fltKind, fltArg, fltOut, fltPc>>

fixVars == <<fixTodos, fixCleaned, fixReport, fixAgain, fixPc>>

gitVars == <<addNoGit, autoGit, defaultBranch, isRepo, headBranch, headCommit, addContext,
             gitPc>>

\* what the interactive session never touches
nonSessVars == <<findVars, doctorVars, cmdVars, keyVars, delVars, webVars, initVars, gitVars, fixVars, fltVars, rtVars, rootVars, npVars, rdVars>>

\* what a lookup never touches
nonFindVars == <<sessVars, doctorVars, cmdVars, keyVars, delVars, webVars, initVars, gitVars, fixVars, fltVars, rtVars, rootVars, npVars, rdVars>>

\* what `todo doctor` never touches
nonDoctorVars == <<todos, selectedIndex, showDeleteConfirm, pc, rawMode, altScreen,
                   target, saveErr, saved, findVars, cmdVars, keyVars, delVars, webVars, initVars, gitVars, fixVars, fltVars, rtVars, rootVars, npVars, rdVars>>

\* what the CLI and web operations never touch
nonCmdVars == <<todos, selectedIndex, showDeleteConfirm, pc, rawMode, altScreen, now,
                target, saveErr, saved, findVars, doctorVars, keyVars, delVars, webVars, initVars, gitVars, fixVars, fltVars, rtVars, rootVars, npVars, rdVars>>

\* what neither the session nor ReadKey touches
nonKeyVars == <<findVars, doctorVars, cmdVars, delVars, webVars, initVars, gitVars, fixVars, fltVars, rtVars, rootVars, npVars, rdVars>>

\* what a call of DeleteTodo on its own never touches
nonDelVars == <<sessVars, findVars, doctorVars, cmdVars, keyVars, webVars, initVars, gitVars, fixVars, fltVars, rtVars, rootVars, npVars, rdVars>>

\* what the handlers of the concurrent requests never touch
nonWebVars == <<todos, selectedIndex, showDeleteConfirm, pc, rawMode, altScreen, now,
                target, saveErr, saved, findVars, doctorVars, cmdVars, keyVars, delVars, initVars, gitVars, fixVars, fltVars, rtVars, rootVars, npVars, rdVars>>

\* what `todo init` never touches
nonInitVars == <<todos, selectedIndex, showDeleteConfirm, pc, rawMode, altScreen, now,
                 target, saveErr, saved, findVars, doctorVars, cmdVars, keyVars, delVars,
                 webVars, gitVars, fixVars, fltVars, rtVars, rootVars, npVars, rdVars>>

\* what the git block of `todo add` never touches
nonGitVars == <<sessVars, findVars, doctorVars, cmdVars, keyVars, delVars, webVars, initVars, fixVars, fltVars, rtVars, rootVars, npVars, rdVars>>

\* what a call of applyDoctorFixes on its own never touches
nonFixVars == <<sessVars, findVars, doctorVars, cmdVars, keyVars, delVars, webVars, initVars,
                gitVars, fltVars, rtVars, rootVars, npVars, rdVars>>

\* what a filter call on its own never touches
nonFilterVars == <<sessVars, findVars, doctorVars, cmdVars, keyVars, delVars, webVars,
                   initVars, gitVars, fixVars, rtVars, rootVars, npVars, rdVars>>

\* what SaveTodos and LoadTodos on a JSON document never touch
nonRoundTripVars == <<sessVars, findVars, doctorVars, cmdVars, keyVars, delVars, webVars,
                      initVars, gitVars, fixVars, fltVars, rootVars, npVars, rdVars>>

\* what FindProjectRoot never touches
nonFindRootVars == <<sessVars, findVars, doctorVars, cmdVars, keyVars, delVars, webVars,
                     initVars, gitVars, fixVars, fltVars, rtVars, npVars, rdVars>>

\* what normalizePaths never touches
nonNormalizeVars == <<sessVars, findVars, doctorVars, cmdVars, keyVars, delVars, webVars,
                      initVars, gitVars, fixVars, fltVars, rtVars, rootVars, rdVars>>

\* what `todo delete` never touches, the file aside
nonRunDeleteVars == <<findVars, doctorVars, cmdVars, keyVars, delVars, webVars, initVars,
                      gitVars, fixVars, fltVars, rtVars, rootVars, npVars>>

vars == <<sessVars, findVars, doctorVars, cmdVars, keyVars, delVars, webVars, initVars, gitVars, fixVars, fltVars, rtVars, rootVars, npVars, rdVars>>

\* no lookup is under way
NoFind == /\ findTodos = <<>>
          /\ idOrIndex = <<>>
          /\ found = -1
          /\ findPc = "idle"

\* the doctorFixReport before any fix
NoFixes == [removedOrphanedPaths |-> 0, removedEmpty |-> 0, removedDuplicates |-> 0]

\* no `todo doctor` is under way
NoDoctor == /\ doctorFix = FALSE
            /\ fixes = NoFixes
            /\ doctorPc = "idle"
            /\ doctorRet = "none"

\* no command has run
NoCmd == /\ cmd = "none"
         /\ cmdRet = "none"
         /\ cmdIdx = 0

\* no `todo delete` on its own is under way
NoRunDelete == /\ rdBefore = <<>>
               /\ rdTarget = -1
               /\ rdOut = [err |-> "", text |-> <<>>]
               /\ rdPc = "idle"

\* no normalizePaths call on its own is under way
NoNormalize == /\ npRaw = <<>>
               /\ npOut = <<>>
               /\ npOther = [joined |-> <<>>, padded |-> <<>>]
               /\ npAgain = <<>>
               /\ npPc = "idle"

\* no FindProjectRoot call on its own is under way
NoFindRoot == /\ startPath = [arg |-> ".", abs |-> <<>>, absErr |-> FALSE]
              /\ markers = <<>>
              /\ current = <<>>
              /\ rootRet = [root |-> <<>>, err |-> "", searchPath |-> ""]
              /\ rootPc = "idle"

\* no save and load of todos.json as JSON is modelled
NoRoundTrip == /\ rtTodos = <<>>
               /\ rtFile = [form |-> "missing", todos |-> <<>>]
               /\ rtLoaded = [todos |-> <<>>, err |-> FALSE]
               /\ rtPc = "idle"

\* no filter call on its own is under way
NoFilter == /\ fltTodos = <<>>
            /\ fltKind = "none"
            /\ fltArg = [status |-> "", pathPrefix |-> <<>>, branch |-> ""]
            /\ fltOut = <<>>
            /\ fltPc = "idle"

\* no call of applyDoctorFixes on its own is under way
NoFixRun == /\ fixTodos = <<>>
            /\ fixCleaned = <<>>
            /\ fixReport = NoFixes
            /\ fixAgain = [cleaned |-> <<>>, fixes |-> NoFixes]
            /\ fixPc = "idle"

\* no git block of `todo add` is modelled
NoGit == /\ addNoGit = FALSE
         /\ autoGit = FALSE
         /\ defaultBranch = ""
         /\ isRepo = FALSE
         /\ headBranch = ""
         /\ headCommit = ""
         /\ addContext = [branch |-> "", commit |-> ""]
         /\ gitPc = "idle"

\* no `todo init` is modelled
NoInit == /\ marker = TRUE
          /\ config = <<>>
          /\ initForce = FALSE
          /\ initIo = "none"
          /\ initRet = "none"
          /\ initBefore = <<>>
          /\ exitCode = -1
          /\ initPc = "idle"

\* no concurrent web requests are modelled
NoWeb == /\ webOp = <<>>
         /\ webPc = <<>>
         /\ webCopy = <<>>
         /\ webRet = <<>>
         /\ webTrace = <<>>
         /\ webStore0 = <<>>

\* no call of DeleteTodo on its own is under way
NoDelete == /\ delTodos = <<>>
            /\ delIndex = 0
            /\ delOut = <<>>
            /\ delPc = "idle"

\* no byte-level input is modelled
NoInput == /\ stdin = <<>>
           /\ readPc = "idle"
           /\ lastTyped = ""
           /\ presses = 0

(***************************************************************************)
(* The interactive session.                                                *)
(***************************************************************************)
QuitKeys == {"q", "Q", "ESC"}
DownKeys == {"DOWN", "j"}
UpKeys == {"UP", "k"}
ToggleKeys == {"SPACE", "ENTER"}
DeleteKeys == {"d", "D", "x", "X"}
HelpKeys == {"?", "h", "H"}
YesKeys == {"y", "Y"}
NoKeys == {"n", "N", "ESC", "q"}
\* keys no case names: two of the keys ReadKey can return besides the above
OtherKeys == {"TAB", "z"}

Keys == QuitKeys \cup DownKeys \cup UpKeys \cup ToggleKeys \cup DeleteKeys \cup HelpKeys
          \cup YesKeys \cup NoKeys \cup {"g", "G"} \cup OtherKeys

\* the switch of the Browsing mode
BrowseCase(key) ==
    IF key \in QuitKeys THEN "quit"
    ELSE IF key \in DownKeys THEN "down"
    ELSE IF key \in UpKeys THEN "up"
    ELSE IF key \in ToggleKeys THEN "toggle"
    ELSE IF key \in DeleteKeys THEN "ask"
    ELSE IF key = "g" THEN "top"
    ELSE IF key = "G" THEN "bottom"
    ELSE IF key \in HelpKeys THEN "help"
    ELSE "other"

\* a confirmation switch that takes "q" for a yes
ConfirmCase_QConfirms(key) ==
    IF key \in YesKeys \cup {"q"} THEN "yes"
    ELSE IF key \in NoKeys THEN "cancel"
    ELSE "other"

\* the switch of the delete confirmation
ConfirmCase(key) ==
    IF key \in YesKeys THEN "yes"
    ELSE IF key \in NoKeys THEN "cancel"
    ELSE "other"

\* the keys ReadKey can return that make the Browsing switch take the case `which`
BrowseKeys(which) == {key \in Keys : BrowseCase(key) = which}

\* the keys ReadKey can return that make the confirmation switch take the case `which`
ConfirmKeys(which) == {key \in Keys : ConfirmCase(key) = which}

Running == pc \in {"Browsing", "ConfirmingDelete", "HelpOverlay"}

\* a cursor that wraps from the last row to the first
CursorDown_Wraps(sel, n) == IF sel < n - 1 THEN sel + 1 ELSE 0

\* case "DOWN", "j"
CursorDown(sel, n) == IF sel < n - 1 THEN sel + 1 ELSE sel

\* case "UP", "k"
CursorUp(sel) == IF sel > 0 THEN sel - 1 ELSE sel

\* case "G"
CursorBottom(n) == n - 1

\* a cursor that is left where it was after a delete
CursorAfterDelete_Unclamped(sel, n) == sel

\* case "y", "Y": the cursor after the delete, n the new length
CursorAfterDelete(sel, n) == IF sel >= n /\ sel > 0 THEN sel - 1 ELSE sel

InRange(sel, ts) == sel >= 0 /\ sel < Len(ts)

NoSession == /\ todos = <<>>
             /\ selectedIndex = 0
             /\ showDeleteConfirm = FALSE
             /\ target = 0
             /\ saveErr = FALSE
             /\ saved = <<>>

\* the statuses the todos of a starting store have (done, and two that are not)
InitStatuses == {StatusOpen, StatusDone, StatusBlocked}

\* the stores a run starts from: todos with distinct ids in insertion order
InitTodo(i, s) == [id |-> i, status |-> s, updatedAt |-> 0]

InitStores ==
    UNION { { [i \in 1..n |-> InitTodo(i, f[i])] : f \in [1..n -> InitStatuses] }
            : n \in 0..MaxTodos }

Init ==
    /\ disk \in InitStores
    /\ pc = "shell"
    /\ rawMode = FALSE
    /\ altScreen = FALSE
    /\ now = 0
    /\ NoSession
    /\ NoFind
    /\ NoDoctor
    /\ NoCmd
    /\ NoRunDelete
    /\ NoNormalize
    /\ NoFindRoot
    /\ NoRoundTrip
    /\ NoFilter
    /\ NoFixRun
    /\ NoGit
    /\ NoInit
    /\ NoWeb
    /\ NoDelete
    /\ NoInput

\* runList up to the call of runInteractiveList, and runInteractiveList up to
\* its first ReadKey.  filter = "" is no --status flag; static is --static or
\* a stdin that is no terminal; rawOk is the outcome of terminal.MakeRaw.
RunList ==
    /\ pc = "shell"
    /\ \E filter \in InitStatuses \cup {""}, static \in BOOLEAN, rawOk \in BOOLEAN :
         LET shown == IF filter # "" THEN FilterTodosByStatus(disk, filter) ELSE disk
         IN /\ todos' = shown
            /\ IF Len(shown) = 0
               THEN pc' = "Empty" /\ UNCHANGED <<rawMode, altScreen>>
               ELSE IF static \/ ~rawOk
                    THEN pc' = "Static" /\ UNCHANGED <<rawMode, altScreen>>
                    ELSE pc' = "Browsing" /\ rawMode' = TRUE /\ altScreen' = TRUE
    /\ UNCHANGED <<disk, selectedIndex, showDeleteConfirm, now, target, saveErr, saved>>
    /\ UNCHANGED nonSessVars

\* a return that leaves the alternate screen and keeps the raw mode
LeaveSession_KeepsRaw ==
    /\ pc' = "Exited"
    /\ altScreen' = FALSE
    /\ UNCHANGED rawMode

\* the deferred calls of runInteractiveList
LeaveSession ==
    /\ pc' = "Exited"
    /\ rawMode' = FALSE
    /\ altScreen' = FALSE

\* case "q", "Q", "ESC"
BrowseQuit ==
    /\ pc = "Browsing"
    /\ BrowseKeys("quit") # {}
    /\ LeaveSession
    /\ UNCHANGED <<disk, todos, selectedIndex, showDeleteConfirm, now, target, saveErr, saved>>
    /\ UNCHANGED nonSessVars

\* the cursor after the case dir of the four cursor cases
MoveCursor(dir, sel, n) ==
    CASE dir = "down" -> CursorDown(sel, n)
      [] dir = "up" -> CursorUp(sel)
      [] dir = "top" -> 0
      [] dir = "bottom" -> CursorBottom(n)

\* case "DOWN", "j" / "UP", "k" / "g" / "G"
BrowseMove ==
    /\ pc = "Browsing"
    /\ UNCHANGED <<pc, showDeleteConfirm, rawMode, altScreen, now, target, saveErr, disk,
                   todos, saved>>
    /\ UNCHANGED nonSessVars
    /\ \E dir \in {"down", "up", "top", "bottom"} :
         /\ selectedIndex' = MoveCursor(dir, selectedIndex, Len(todos))
         /\ BrowseKeys(dir) # {}

\* case "SPACE", "ENTER"; ok is whether the write of SaveTodos succeeds,
\* and its error is dropped
BrowseToggle ==
    /\ pc = "Browsing"
    /\ BrowseKeys("toggle") # {}
    /\ now < MaxTime
    /\ IF InRange(selectedIndex, todos)
       THEN \E ok \in BOOLEAN :
              /\ now' = now + 1
              /\ todos' = [todos EXCEPT ![selectedIndex + 1] = Toggle(@, now + 1)]
              /\ disk' = SaveTodos(ok, todos', disk)
              /\ saveErr' = ~ok
              /\ saved' = todos'
       ELSE UNCHANGED <<now, todos, disk, saveErr, saved>>
    /\ UNCHANGED <<selectedIndex, showDeleteConfirm, pc, rawMode, altScreen, target>>
    /\ UNCHANGED nonSessVars

\* case "d", "D", "x", "X"
BrowseDelete ==
    /\ pc = "Browsing"
    /\ BrowseKeys("ask") # {}
    /\ IF InRange(selectedIndex, todos)
       THEN /\ showDeleteConfirm' = TRUE
            /\ pc' = "ConfirmingDelete"
            /\ target' = todos[selectedIndex + 1].id
       ELSE UNCHANGED <<showDeleteConfirm, pc, target>>
    /\ UNCHANGED <<disk, todos, selectedIndex, rawMode, altScreen, now, saveErr, saved>>
    /\ UNCHANGED nonSessVars

\* case "?", "h", "H": displayHelp, then the session waits in ReadKey
BrowseHelp ==
    /\ pc = "Browsing"
    /\ BrowseKeys("help") # {}
    /\ pc' = "HelpOverlay"
    /\ UNCHANGED <<disk, todos, selectedIndex, showDeleteConfirm, rawMode, altScreen, now,
                   target, saveErr, saved>>
    /\ UNCHANGED nonSessVars

\* a key no case of the Browsing switch names
BrowseOther ==
    /\ pc = "Browsing"
    /\ UNCHANGED <<pc, selectedIndex, showDeleteConfirm, rawMode, altScreen, now, target,
                   saveErr, disk, todos, saved>>
    /\ UNCHANGED nonSessVars
    /\ BrowseKeys("other") # {}

\* a help overlay that hands "q" on to the Browsing switch
HelpAnyKey_QuitsOnQ ==
    /\ pc = "HelpOverlay"
    /\ \E key \in Keys :
         IF key = "q"
         THEN pc' = "Exited" /\ rawMode' = FALSE /\ altScreen' = FALSE
         ELSE pc' = "Browsing" /\ UNCHANGED <<rawMode, altScreen>>
    /\ UNCHANGED <<disk, todos, selectedIndex, showDeleteConfirm, now, target, saveErr, saved>>
    /\ UNCHANGED nonSessVars

\* the ReadKey after displayHelp: its result is dropped
HelpAnyKey ==
    /\ pc = "HelpOverlay"
    /\ Keys # {}
    /\ pc' = "Browsing"
    /\ UNCHANGED <<disk, todos, selectedIndex, showDeleteConfirm, rawMode, altScreen, now,
                   target, saveErr, saved>>
    /\ UNCHANGED nonSessVars

\* showDeleteConfirm, case "y", "Y"
ConfirmYes ==
    /\ pc = "ConfirmingDelete"
    /\ ConfirmKeys("yes") # {}
    /\ IF InRange(selectedIndex, todos)
       THEN \E ok \in BOOLEAN :
              LET rest == DeleteTodo(todos, selectedIndex)
              IN /\ todos' = rest
                 /\ disk' = SaveTodos(ok, rest, disk)
                 /\ saveErr' = ~ok
                 /\ saved' = rest
                 /\ selectedIndex' = CursorAfterDelete(selectedIndex, Len(rest))
                 /\ IF Len(rest) = 0
                    THEN LeaveSession /\ UNCHANGED showDeleteConfirm
                    ELSE /\ showDeleteConfirm' = FALSE
                         /\ pc' = "Browsing"
                         /\ UNCHANGED <<rawMode, altScreen>>
       ELSE /\ showDeleteConfirm' = FALSE
            /\ pc' = "Browsing"
            /\ UNCHANGED <<todos, disk, saveErr, saved, selectedIndex, rawMode, altScreen>>
    /\ target' = 0
    /\ UNCHANGED now
    /\ UNCHANGED nonSessVars

\* showDeleteConfirm, case "n", "N", "ESC", "q"
ConfirmNo ==
    /\ pc = "ConfirmingDelete"
    /\ ConfirmKeys("cancel") # {}
    /\ showDeleteConfirm' = FALSE
    /\ pc' = "Browsing"
    /\ target' = 0
    /\ UNCHANGED <<disk, todos, selectedIndex, rawMode, altScreen, now, saveErr, saved>>
    /\ UNCHANGED nonSessVars

\* showDeleteConfirm, any other key: continue
ConfirmOther ==
    /\ pc = "ConfirmingDelete"
    /\ UNCHANGED <<pc, selectedIndex, showDeleteConfirm, rawMode, altScreen, now, target,
                   saveErr, disk, todos, saved>>
    /\ UNCHANGED nonSessVars
    /\ ConfirmKeys("other") # {}

\* the step of the Browsing switch when ReadKey has returned key
BrowsePress(key) ==
    LET which == BrowseCase(key)
    IN CASE which = "quit" -> BrowseQuit
         [] which \in {"down", "up", "top", "bottom"} ->
                selectedIndex' = MoveCursor(which, selectedIndex, Len(todos)) /\ BrowseMove
         [] which = "toggle" -> BrowseToggle
         [] which = "ask" -> BrowseDelete
         [] which = "help" -> BrowseHelp
         [] OTHER -> BrowseOther

\* the step of the confirmation switch when ReadKey has returned key
ConfirmPress(key) ==
    LET which == ConfirmCase(key)
    IN CASE which = "yes" -> ConfirmYes
         [] which = "cancel" -> ConfirmNo
         [] OTHER -> ConfirmOther

Next ==
    \/ RunList
    \/ BrowseQuit
    \/ BrowseMove
    \/ BrowseToggle
    \/ BrowseDelete
    \/ BrowseHelp
    \/ BrowseOther
    \/ HelpAnyKey
    \/ ConfirmYes
    \/ ConfirmNo
    \/ ConfirmOther

Spec == Init /\ [][Next]_vars

(***************************************************************************)
(* The session and another process on the same project: while the session *)
(* is open, a `todo add` in another terminal, or a POST /api/todos to the  *)
(* web server, loads todos.json, appends its todo and saves.               *)
(***************************************************************************)
\* the ID of the todo the other process creates
OtherId == MaxTodos + 1

\* runAdd or Server.createTodo in the other process, from LoadTodos to a
\* SaveTodos that succeeds
OtherProcessAdds ==
    /\ Running
    /\ \A i \in 1..Len(disk) : disk[i].id # OtherId
    /\ disk' = Append(disk, InitTodo(OtherId, StatusOpen))
    /\ UNCHANGED <<todos, selectedIndex, showDeleteConfirm, pc, rawMode, altScreen, now,
                   target, saveErr, saved>>
    /\ UNCHANGED nonSessVars

NextShared ==
    \/ RunList
    \/ BrowseQuit
    \/ BrowseMove
    \/ BrowseToggle
    \/ BrowseDelete
    \/ BrowseHelp
    \/ BrowseOther
    \/ HelpAnyKey
    \/ ConfirmYes
    \/ ConfirmNo
    \/ ConfirmOther
    \/ OtherProcessAdds

SpecShared == Init /\ [][NextShared]_vars

(***************************************************************************)
(* The Browsing mode over the bytes of the terminal: ReadKey reads one     *)
(* byte and, after the byte 27, calls Read(buf[1:3]) for the rest of an    *)
(* escape sequence.  In raw mode a Read returns when at least one byte is  *)
(* there, with as many bytes as are there and fit.                         *)
(***************************************************************************)
\* the keys pressed: they cover the quit case, two cursor cases by escape
\* sequence, one by letter, and a key without a case
TypedKeys == {"q", "ESC", "UP", "DOWN", "j", "z"}

\* the bytes a terminal sends for a key
KeyBytes(key) ==
    CASE key = "ESC" -> <<27>>
      [] key = "UP" -> <<27, 91, 65>>
      [] key = "DOWN" -> <<27, 91, 66>>
      [] key = "q" -> <<113>>
      [] key = "j" -> <<106>>
      [] key = "z" -> <<122>>

\* ReadKey, the byte is not 27: the switch on buf[0]; the default case,
\* string(buf[0]), is spelled out for the letters of TypedKeys
DecodeByte(b) ==
    CASE b = 32 -> "SPACE"
      [] b \in {13, 10} -> "ENTER"
      [] b \in {127, 8} -> "BACKSPACE"
      [] b = 9 -> "TAB"
      [] b = 113 -> "q"
      [] b = 106 -> "j"
      [] b = 122 -> "z"

\* ReadKey, the byte is 27: the result for buf[1] = b1 and buf[2] = b2 (a byte
\* the Read did not fill is 0)
DecodeEscape(b1, b2) ==
    IF b1 = 91
    THEN CASE b2 = 65 -> "UP"
           [] b2 = 66 -> "DOWN"
           [] b2 = 67 -> "RIGHT"
           [] b2 = 68 -> "LEFT"
           [] OTHER -> "ESC"
    ELSE "ESC"

\* the Browsing switch on the keys of TypedKeys
Dispatch(key) ==
    LET which == BrowseCase(key)
    IN /\ IF which = "quit"
          THEN LeaveSession
          ELSE UNCHANGED <<pc, rawMode, altScreen>>
       /\ selectedIndex' = IF which \in {"down", "up"}
                           THEN MoveCursor(which, selectedIndex, Len(todos))
                           ELSE selectedIndex
       /\ UNCHANGED <<disk, todos, showDeleteConfirm, now, target, saveErr, saved>>

InitKeys ==
    /\ disk \in InitStores
    /\ pc = "shell"
    /\ rawMode = FALSE
    /\ altScreen = FALSE
    /\ now = 0
    /\ NoSession
    /\ NoFind
    /\ NoDoctor
    /\ NoCmd
    /\ NoRunDelete
    /\ NoNormalize
    /\ NoFindRoot
    /\ NoRoundTrip
    /\ NoFilter
    /\ NoFixRun
    /\ NoGit
    /\ NoInit
    /\ NoWeb
    /\ NoDelete
    /\ stdin = <<>>
    /\ readPc = "first"
    /\ lastTyped = ""
    /\ presses = 0

\* the user presses a key while the list is shown
TypeKey ==
    /\ pc = "Browsing"
    /\ presses < MaxPresses
    /\ \E key \in TypedKeys :
         /\ stdin' = stdin \o KeyBytes(key)
         /\ lastTyped' = key
    /\ presses' = presses + 1
    /\ UNCHANGED readPc
    /\ UNCHANGED <<sessVars, nonKeyVars>>

\* os.Stdin.Read(buf[:1]) returns; for a byte other than 27 ReadKey returns
\* and the switch of the loop runs
ReadKeyFirst ==
    /\ pc = "Browsing"
    /\ readPc = "first"
    /\ stdin # <<>>
    /\ stdin' = Tail(stdin)
    /\ IF Head(stdin) = 27
       THEN readPc' = "rest" /\ UNCHANGED sessVars
       ELSE readPc' = "first" /\ Dispatch(DecodeByte(Head(stdin)))
    /\ UNCHANGED <<lastTyped, presses>>
    /\ UNCHANGED nonKeyVars

\* os.Stdin.Read(buf[1:3]) returns with one or two bytes; ReadKey returns and
\* the switch of the loop runs
ReadKeyRest ==
    /\ pc = "Browsing"
    /\ readPc = "rest"
    /\ stdin # <<>>
    /\ LET n == IF Len(stdin) >= 2 THEN 2 ELSE 1
           b1 == stdin[1]
           b2 == IF n = 2 THEN stdin[2] ELSE 0
       IN /\ stdin' = SubSeq(stdin, n + 1, Len(stdin))
          /\ Dispatch(DecodeEscape(b1, b2))
    /\ readPc' = "first"
    /\ UNCHANGED <<lastTyped, presses>>
    /\ UNCHANGED nonKeyVars

NextKeys ==
    \/ RunList
    \/ TypeKey
    \/ ReadKeyFirst
    \/ ReadKeyRest

SpecKeys == InitKeys /\ [][NextKeys]_vars

(***************************************************************************)
(* DeleteTodo on bounded inputs.                                           *)
(***************************************************************************)
\* the indexes of a call: negative, in range, len and past len
DeleteIndexes == (0 - 2) .. (MaxTodos + 1)

InitDelete ==
    /\ delTodos \in InitStores
    /\ delIndex \in DeleteIndexes
    /\ delOut = <<>>
    /\ delPc = "call"
    /\ disk = <<>>
    /\ pc = "shell"
    /\ rawMode = FALSE
    /\ altScreen = FALSE
    /\ now = 0
    /\ NoSession
    /\ NoFind
    /\ NoDoctor
    /\ NoCmd
    /\ NoRunDelete
    /\ NoNormalize
    /\ NoFindRoot
    /\ NoRoundTrip
    /\ NoFilter
    /\ NoFixRun
    /\ NoGit
    /\ NoInit
    /\ NoWeb
    /\ NoInput

CallDelete ==
    /\ delPc = "call"
    /\ delOut' = DeleteTodo(delTodos, delIndex)
    /\ delPc' = "returned"
    /\ UNCHANGED <<delTodos, delIndex>>
    /\ UNCHANGED nonDelVars

NextDelete == CallDelete

SpecDelete == InitDelete /\ [][NextDelete]_vars

(***************************************************************************)
(* FindTodoByIDOrIndex on bounded inputs.                                  *)
(***************************************************************************)
\* the string of n characters that starts with h and goes on with "a"
Str(h, n) == [i \in 1..n |-> IF i = 1 THEN h ELSE "a"]

\* IDs start with a hex digit that is a decimal digit, or with one that is not
IdHeads == {"0", "1", "a"}

IdPool == {Str(h, n) : h \in IdHeads, n \in (MaxIdLen - 1)..MaxIdLen}

TokenHeads == {"0", "1", "2", "3", "4", "5", "a"}

Tokens == {Str(h, n) : h \in TokenHeads, n \in 1..MaxIdLen}
            \cup {<<>>, <<"-", "1">>, <<"1", "2">>}

\* collections of todos with pairwise distinct IDs
FindInputs ==
    UNION { { [i \in 1..n |-> [id |-> f[i]]] :
                f \in {g \in [1..n -> IdPool] : \A i, j \in 1..n : i # j => g[i] # g[j]} }
            : n \in 0..MaxTodos }

InitFind ==
    /\ findTodos \in FindInputs
    /\ idOrIndex \in Tokens
    /\ found = -1
    /\ findPc = "call"
    /\ disk = <<>>
    /\ pc = "shell"
    /\ rawMode = FALSE
    /\ altScreen = FALSE
    /\ now = 0
    /\ NoSession
    /\ NoDoctor
    /\ NoCmd
    /\ NoRunDelete
    /\ NoNormalize
    /\ NoFindRoot
    /\ NoRoundTrip
    /\ NoFilter
    /\ NoFixRun
    /\ NoGit
    /\ NoInit
    /\ NoWeb
    /\ NoDelete
    /\ NoInput

CallFind ==
    /\ findPc = "call"
    /\ found' = FindTodoByIDOrIndex(findTodos, idOrIndex)
    /\ findPc' = "returned"
    /\ UNCHANGED <<findTodos, idOrIndex, nonFindVars>>

NextFind == CallFind

SpecFind == InitFind /\ [][NextFind]_vars

(***************************************************************************)
(* `todo doctor [--fix]`.  A todo of a doctor store is                     *)
(* [id, text, paths, updatedAt]; a text is the sequence of its characters. *)
(***************************************************************************)
RECURSIVE TrimLeft(_)
TrimLeft(s) == IF s # <<>> /\ Head(s) = " " THEN TrimLeft(Tail(s)) ELSE s

RECURSIVE TrimRight(_)
TrimRight(s) ==
    IF s # <<>> /\ s[Len(s)] = " " THEN TrimRight(SubSeq(s, 1, Len(s) - 1)) ELSE s

\* strings.TrimSpace
TrimSpace(s) == TrimRight(TrimLeft(s))

\* the paths under the project root for which os.Stat finds a file
ExistingFiles == {"keep.txt"}

\* the todos with a path that os.Stat does not find
checkOrphanedPaths(ts) ==
    SelectSeq(ts, LAMBDA todo : \E k \in 1..Len(todo.paths) : todo.paths[k] \notin ExistingFiles)

checkEmptyTodos(ts) == SelectSeq(ts, LAMBDA todo : TrimSpace(todo.text) = <<>>)

\* the todos whose trimmed text an earlier todo has
checkDuplicateTodos(ts) ==
    LET dup == {i \in 1..Len(ts) :
                  \E j \in 1..(i - 1) : TrimSpace(ts[j].text) = TrimSpace(ts[i].text)}
        Pick[i \in 0..Len(ts)] ==
            IF i = 0 THEN <<>>
            ELSE IF i \in dup THEN Append(Pick[i - 1], ts[i]) ELSE Pick[i - 1]
    IN Pick[Len(ts)]

hasChanges(r) ==
    r.removedOrphanedPaths > 0 \/ r.removedEmpty > 0 \/ r.removedDuplicates > 0

\* a loop that compares the texts as they are stored, not trimmed
RECURSIVE applyDoctorFixesLoop_RawText(_, _, _, _, _, _)
applyDoctorFixesLoop_RawText(ts, i, clock, cleaned, report, seenText) ==
    IF i > Len(ts)
    THEN [cleaned |-> cleaned, fixes |-> report]
    ELSE LET todo == ts[i]
             text == todo.text
         IN IF TrimSpace(text) = <<>>
            THEN applyDoctorFixesLoop_RawText(ts, i + 1, clock, cleaned,
                                              [report EXCEPT !.removedEmpty = @ + 1],
                                              seenText)
            ELSE IF text \in seenText
                 THEN applyDoctorFixesLoop_RawText(ts, i + 1, clock, cleaned,
                                                   [report EXCEPT !.removedDuplicates = @ + 1],
                                                   seenText)
                 ELSE LET validPaths ==
                              SelectSeq(todo.paths, LAMBDA path : path \in ExistingFiles)
                          kept == IF Len(validPaths) # Len(todo.paths)
                                  THEN [todo EXCEPT !.paths = validPaths,
                                                    !.updatedAt = clock]
                                  ELSE todo
                      IN applyDoctorFixesLoop_RawText(
                             ts, i + 1, clock, Append(cleaned, kept),
                             [report EXCEPT !.removedOrphanedPaths =
                                                @ + Len(todo.paths) - Len(validPaths)],
                             seenText \cup {text})

\* the loop of applyDoctorFixes from todo i on
RECURSIVE applyDoctorFixesLoop(_, _, _, _, _, _)
applyDoctorFixesLoop(ts, i, clock, cleaned, report, seenText) ==
    IF i > Len(ts)
    THEN [cleaned |-> cleaned, fixes |-> report]
    ELSE LET todo == ts[i]
             text == TrimSpace(todo.text)
         IN IF text = <<>>
            THEN applyDoctorFixesLoop(ts, i + 1, clock, cleaned,
                                      [report EXCEPT !.removedEmpty = @ + 1], seenText)
            ELSE IF text \in seenText
                 THEN applyDoctorFixesLoop(ts, i + 1, clock, cleaned,
                                           [report EXCEPT !.removedDuplicates = @ + 1],
                                           seenText)
                 ELSE LET validPaths ==
                              SelectSeq(todo.paths, LAMBDA path : path \in ExistingFiles)
                          kept == IF Len(validPaths) # Len(todo.paths)
                                  THEN [todo EXCEPT !.paths = validPaths,
                                                    !.updatedAt = clock]
                                  ELSE todo
                      IN applyDoctorFixesLoop(
                             ts, i + 1, clock, Append(cleaned, kept),
                             [report EXCEPT !.removedOrphanedPaths =
                                                @ + Len(todo.paths) - Len(validPaths)],
                             seenText \cup {text})

applyDoctorFixes(ts, clock) == applyDoctorFixesLoop(ts, 1, clock, <<>>, NoFixes, {})

\* texts of stored todos: blank, two that are equal once trimmed, another
DoctorTexts == {<<" ">>, <<"a">>, <<"a", " ">>, <<"b">>}

DoctorPaths == {<<>>, <<"keep.txt">>, <<"missing.txt">>, <<"keep.txt", "missing.txt">>}

\* the store of n todos with the texts t and the paths p
DoctorStore(n, t, p) ==
    [i \in 1..n |-> [id |-> i, text |-> t[i], paths |-> p[i], updatedAt |-> 0]]

InitDoctor ==
    /\ \E n \in 0..MaxTodos :
         \E t \in [1..n -> DoctorTexts], p \in [1..n -> DoctorPaths] :
             disk = DoctorStore(n, t, p)
    /\ doctorPc = "shell"
    /\ doctorFix = FALSE
    /\ fixes = NoFixes
    /\ doctorRet = "none"
    /\ pc = "shell"
    /\ rawMode = FALSE
    /\ altScreen = FALSE
    /\ now = 0
    /\ NoSession
    /\ NoFind
    /\ NoCmd
    /\ NoRunDelete
    /\ NoNormalize
    /\ NoFindRoot
    /\ NoRoundTrip
    /\ NoFilter
    /\ NoFixRun
    /\ NoGit
    /\ NoInit
    /\ NoWeb
    /\ NoDelete
    /\ NoInput

\* runDoctor.  fix is the --fix flag, ok whether the write of SaveTodos
\* succeeds.  Inside `if doctorFix`, `todos, fixes := applyDoctorFixes(...)`
\* declares a new todos for that block: the cleaned collection is what the
\* re-run checks see, and the todos that SaveTodos gets after the block is
\* still the collection that was loaded.
RunDoctor ==
    /\ doctorPc = "shell"
    /\ \E fix \in BOOLEAN, ok \in BOOLEAN :
         LET loaded == disk
             applied == applyDoctorFixes(loaded, now + 1)
             inner == applied.cleaned
             outer == loaded
             modified == fix /\ hasChanges(applied.fixes)
         IN /\ doctorFix' = fix
            /\ doctorPc' = "done"
            /\ IF Len(loaded) = 0
               THEN /\ doctorRet' = "ok"
                    /\ UNCHANGED <<disk, fixes, now>>
               ELSE /\ IF fix
                       THEN fixes' = applied.fixes /\ now' = now + 1
                       ELSE UNCHANGED <<fixes, now>>
                    /\ IF modified
                       THEN /\ disk' = SaveTodos(ok, outer, disk)
                            /\ doctorRet' = IF ok THEN "ok" ELSE "error"
                       ELSE /\ doctorRet' = "ok"
                            /\ UNCHANGED disk
    /\ UNCHANGED nonDoctorVars

NextDoctor == RunDoctor

SpecDoctor == InitDoctor /\ [][NextDoctor]_vars

(***************************************************************************)
(* The CLI commands add, edit, status and done, the toggle of an           *)
(* interactive session, and the web API, on the store of one project.      *)
(* A todo of this store is [id, text, status, priority, updatedAt]; the    *)
(* handlers read the clock at the same instant (now is not advanced).      *)
(* A handler is an operator from the loaded todos and its arguments to     *)
(* [err, save, todos, idx]: whether it fails before SaveTodos, whether it  *)
(* calls SaveTodos, with which collection, and which todo it wrote.        *)
(***************************************************************************)
PriorityLow == "low"
PriorityMedium == "medium"
PriorityHigh == "high"

ValidPriorities == {PriorityLow, PriorityMedium, PriorityHigh}

PriorityIsValid(p) == p \in ValidPriorities

\* strings.ToLower on the status and priority words the requests carry
ToLower(word) ==
    CASE word = "DONE" -> "done"
      [] word = "HIGH" -> "high"
      [] OTHER -> word

\* strings.Join(args, " ")
RECURSIVE Join(_)
Join(args) ==
    IF args = <<>> THEN <<>>
    ELSE IF Len(args) = 1 THEN args[1]
    ELSE args[1] \o <<" ">> \o Join(Tail(args))

NewTodo(id, text, clock) ==
    [id |-> id, text |-> text, status |-> StatusOpen, priority |-> PriorityMedium,
     updatedAt |-> clock]

FindTodoByID(ts, id) ==
    LET hits == {i \in 1..Len(ts) : ts[i].id = id}
    IN IF hits = {} THEN -1 ELSE (CHOOSE i \in hits : \A j \in hits : i <= j) - 1

\* a handler returns an error before it saves
Failed(ts) == [err |-> TRUE, save |-> FALSE, todos |-> ts, idx |-> 0]

\* a handler returns nil without saving
Untouched(ts) == [err |-> FALSE, save |-> FALSE, todos |-> ts, idx |-> 0]

\* a handler calls SaveTodos with ts, having written the todo at position idx (0-based)
Saving(ts, idx) == [err |-> FALSE, save |-> TRUE, todos |-> ts, idx |-> idx + 1]

\* runAdd; pathFlagUsed stands for `pathFlagUsed || len(addPaths) > 0`
runAdd(ts, args, pathFlagUsed, addPriority, id, clock) ==
    LET joined == Join(args)
        text == IF pathFlagUsed /\ Len(args) > 1 THEN TrimSpace(args[1]) ELSE joined
    IN IF TrimSpace(joined) = <<>>
       THEN Failed(ts)
       ELSE IF addPriority \notin {PriorityLow, PriorityMedium, PriorityHigh}
            THEN Failed(ts)
            ELSE Saving(Append(ts, [NewTodo(id, text, clock) EXCEPT !.priority = addPriority]),
                        Len(ts))

\* runEdit; changed is the set of flags given on the command line
runEdit(ts, token, changed, editText, editPriority, editStatus, clock) ==
    LET idx == FindTodoByIDOrIndex(ts, token)
        text == TrimSpace(editText)
        p == ToLower(editPriority)
        status == ToLower(editStatus)
        t0 == ts[idx + 1]
        t1 == IF "text" \in changed THEN [t0 EXCEPT !.text = text] ELSE t0
        t2 == IF "priority" \in changed THEN [t1 EXCEPT !.priority = p] ELSE t1
        t3 == IF "status" \in changed THEN [t2 EXCEPT !.status = status] ELSE t2
    IN IF idx = -1 THEN Failed(ts)
       ELSE IF "text" \in changed /\ text = <<>> THEN Failed(ts)
       ELSE IF "priority" \in changed /\ ~PriorityIsValid(p) THEN Failed(ts)
       ELSE IF "status" \in changed /\ ~StatusIsValid(status) THEN Failed(ts)
       ELSE IF changed = {} THEN Failed(ts)
       ELSE Saving([ts EXCEPT ![idx + 1] = [t3 EXCEPT !.updatedAt = clock]], idx)

runStatus(ts, token, arg, clock) ==
    LET idx == FindTodoByIDOrIndex(ts, token)
        newStatus == ToLower(arg)
    IN IF idx = -1 THEN Failed(ts)
       ELSE IF ~StatusIsValid(newStatus) THEN Failed(ts)
       ELSE IF ts[idx + 1].status = newStatus THEN Untouched(ts)
       ELSE Saving([ts EXCEPT ![idx + 1] = [@ EXCEPT !.status = newStatus,
                                                      !.updatedAt = clock]], idx)

\* a todo done that marks a todo that is done again
runDone_MarksAgain(ts, token, clock) ==
    LET idx == FindTodoByIDOrIndex(ts, token)
    IN IF idx = -1 THEN Failed(ts)
       ELSE Saving([ts EXCEPT ![idx + 1] = MarkDone(@, clock)], idx)

runDone(ts, token, clock) ==
    LET idx == FindTodoByIDOrIndex(ts, token)
    IN IF idx = -1 THEN Failed(ts)
       ELSE IF ts[idx + 1].status = StatusDone THEN Untouched(ts)
       ELSE Saving([ts EXCEPT ![idx + 1] = MarkDone(@, clock)], idx)

\* the array of the slice ts after append(ts[:index], ts[index+1:]...):
\* the elements after index moved down, the last place left as it was
BackingAfterDelete(ts, index) ==
    [i \in 1..Len(ts) |-> IF i <= index THEN ts[i]
                          ELSE IF i < Len(ts) THEN ts[i + 1]
                          ELSE ts[i]]

\* runDelete from FindTodoByIDOrIndex on: the collection it saves, the
\* position `at` it resolved (-1 for TodoNotFound) and the text it prints,
\* read through target after DeleteTodo.  target is a pointer into the
\* slice LoadTodos returned.
runDelete(ts, token) ==
    LET idx == FindTodoByIDOrIndex(ts, token)
    IN IF idx = -1
       THEN [err |-> TRUE, save |-> FALSE, todos |-> ts, idx |-> 0, at |-> idx,
             text |-> <<>>]
       ELSE [err |-> FALSE, save |-> TRUE, todos |-> DeleteTodo(ts, idx), idx |-> 0,
             at |-> idx, text |-> BackingAfterDelete(ts, idx)[idx + 1].text]

\* Server.createTodo; an absent priority is ""
createTodo(ts, reqText, reqPriority, id, clock) ==
    LET priority == ToLower(reqPriority)
        todo == NewTodo(id, TrimSpace(reqText), clock)
    IN IF TrimSpace(reqText) = <<>> THEN Failed(ts)
       ELSE IF reqPriority # "" /\ ~PriorityIsValid(priority) THEN Failed(ts)
       ELSE Saving(Append(ts, IF reqPriority # "" /\ PriorityIsValid(priority)
                              THEN [todo EXCEPT !.priority = priority]
                              ELSE todo),
                   Len(ts))

\* Server.toggleTodo
toggleTodo(ts, todoID, clock) ==
    LET idx == FindTodoByID(ts, todoID)
    IN IF idx = -1 THEN Failed(ts)
       ELSE Saving([ts EXCEPT ![idx + 1] = Toggle(@, clock)], idx)

\* Server.updateTodo; an absent text is <<>>, an absent status or priority ""
updateTodo(ts, todoID, reqText, reqStatus, reqPriority, clock) ==
    LET idx == FindTodoByID(ts, todoID)
        p == ToLower(reqPriority)
        t0 == ts[idx + 1]
        t1 == IF reqText # <<>> THEN [t0 EXCEPT !.text = reqText] ELSE t0
        t2 == IF reqStatus # "" THEN [t1 EXCEPT !.status = reqStatus] ELSE t1
        t3 == IF reqPriority # "" THEN [t2 EXCEPT !.priority = p] ELSE t2
    IN IF idx = -1 THEN Failed(ts)
       ELSE IF reqPriority # "" /\ ~PriorityIsValid(p) THEN Failed(ts)
       ELSE Saving([ts EXCEPT ![idx + 1] = [t3 EXCEPT !.updatedAt = clock]], idx)

\* GenerateID: the ID of the k-th todo the project creates
StoreId(k) == <<"a", DecimalDigits[k + 1]>>

\* words typed on the command line and sent in requests
AddTexts == {<<>>, <<"a">>}

AddArgs == {<<t>> : t \in AddTexts} \cup {<<t, <<"p">>>> : t \in AddTexts}

AddPriorities == {"medium", "high", "HIGH"}

EditTexts == {<<" ">>, <<"a">>}

EditPriorities == {"HIGH", "bogus"}

EditStatuses == {"DONE", "blocked", "bogus"}

StatusArgs == {"open", "DONE", "blocked", "bogus"}

WebTexts == {<<>>, <<" ">>, <<"a">>}

WebPriorities == {"", "HIGH", "bogus"}

WebStatuses == {"", "done", "bogus"}

\* the id-or-index tokens: the positions up to one past the fullest store,
\* and the ID of the first todo
CmdTokens == {<<DecimalDigits[k + 1]>> : k \in 1..(MaxStore + 1)} \cup {StoreId(1)}

\* the IDs a request names: those of the todos, and one no todo has
WebIds == {StoreId(k) : k \in 1..(MaxStore + 1)}

InitOps ==
    /\ disk = <<>>
    /\ NoCmd
    /\ NoRunDelete
    /\ NoNormalize
    /\ NoFindRoot
    /\ NoRoundTrip
    /\ NoFilter
    /\ NoFixRun
    /\ NoGit
    /\ NoInit
    /\ NoWeb
    /\ NoDelete
    /\ NoInput
    /\ pc = "shell"
    /\ rawMode = FALSE
    /\ altScreen = FALSE
    /\ now = 0
    /\ NoSession
    /\ NoFind
    /\ NoDoctor

\* the end of a handler with the result r: the write of SaveTodos succeeds
\* or fails, and a failed write is returned as an error
Finish(name, r) ==
    /\ cmd' = name
    /\ IF r.err
       THEN cmdRet' = "error" /\ cmdIdx' = 0 /\ UNCHANGED disk
       ELSE IF ~r.save
            THEN cmdRet' = "ok" /\ cmdIdx' = 0 /\ UNCHANGED disk
            ELSE \E ok \in BOOLEAN :
                   /\ disk' = SaveTodos(ok, r.todos, disk)
                   /\ cmdRet' = IF ok THEN "ok" ELSE "error"
                   /\ cmdIdx' = IF ok THEN r.idx ELSE 0
    /\ UNCHANGED nonCmdVars

\* todo add <args...> [--path src] [--priority p]
CliAdd ==
    /\ Len(disk) < MaxStore
    /\ \E args \in AddArgs, pathFlagUsed \in BOOLEAN, addPriority \in AddPriorities :
         Finish("add", runAdd(disk, args, pathFlagUsed, addPriority,
                              StoreId(Len(disk) + 1), now))

\* todo edit <token> [--text t] [--priority p] [--status s]
CliEdit ==
    /\ \E token \in CmdTokens, changed \in SUBSET {"text", "priority", "status"} :
         \E editText \in IF "text" \in changed THEN EditTexts ELSE {<<>>},
            editPriority \in IF "priority" \in changed THEN EditPriorities ELSE {""},
            editStatus \in IF "status" \in changed THEN EditStatuses ELSE {""} :
              Finish("edit", runEdit(disk, token, changed, editText, editPriority,
                                     editStatus, now))

\* todo status <token> <status>
CliStatus ==
    /\ \E token \in CmdTokens, arg \in StatusArgs :
         Finish("status", runStatus(disk, token, arg, now))

\* todo done <token>
CliDone ==
    /\ \E token \in CmdTokens : Finish("done", runDone(disk, token, now))

\* todo delete <token>
CliDelete ==
    /\ \E token \in CmdTokens : Finish("delete", runDelete(disk, token))

\* SPACE / ENTER in a `todo list` session on the whole store with row i
\* selected (BrowseToggle on the todos of this store): the error of
\* SaveTodos is dropped
ListToggle ==
    /\ \E i \in 1..Len(disk), ok \in BOOLEAN :
         /\ disk' = SaveTodos(ok, [disk EXCEPT ![i] = Toggle(@, now)], disk)
         /\ cmd' = "toggle"
         /\ cmdRet' = "ok"
         /\ cmdIdx' = IF ok THEN i ELSE 0
    /\ UNCHANGED nonCmdVars

\* POST /api/todos
WebCreate ==
    /\ Len(disk) < MaxStore
    /\ \E reqText \in WebTexts, reqPriority \in WebPriorities :
         Finish("webCreate", createTodo(disk, reqText, reqPriority,
                                        StoreId(Len(disk) + 1), now))

\* PUT /api/todos/{id}
WebUpdate ==
    /\ \E todoID \in WebIds, reqText \in WebTexts, reqStatus \in WebStatuses,
          reqPriority \in WebPriorities :
         Finish("webUpdate", updateTodo(disk, todoID, reqText, reqStatus, reqPriority, now))

\* POST /api/todos/{id}/toggle
WebToggle ==
    /\ \E todoID \in WebIds : Finish("webToggle", toggleTodo(disk, todoID, now))

NextOps ==
    \/ CliAdd
    \/ CliEdit
    \/ CliStatus
    \/ CliDone
    \/ ListToggle
    \/ WebCreate
    \/ WebUpdate
    \/ WebToggle

SpecOps == InitOps /\ [][NextOps]_vars

\* the commands of the command line alone, `todo delete` among them
NextCli ==
    \/ CliAdd
    \/ CliEdit
    \/ CliStatus
    \/ CliDone
    \/ CliDelete

SpecCli == InitOps /\ [][NextCli]_vars

(***************************************************************************)
(* Two web requests handled concurrently.  net/http runs every handler in  *)
(* its own goroutine and the Server holds no lock: a handler loads the     *)
(* file, changes the slice it got, and saves it, and the other handler may *)
(* run between its LoadTodos and its SaveTodos.                            *)
(***************************************************************************)
Reqs == {1, 2}

\* Server.deleteTodo
deleteTodo(ts, todoID) ==
    LET idx == FindTodoByID(ts, todoID)
    IN IF idx = -1 THEN Failed(ts)
       ELSE Saving(DeleteTodo(ts, idx), -1)

\* the collection in the file before the requests: n open todos
WebStore(n) == [k \in 1..n |-> NewTodo(StoreId(k), <<"a">>, 0)]

\* what a request asks for
WebOps ==
    {[kind |-> "create", id |-> <<>>]}
    \cup {[kind |-> "toggle", id |-> i] : i \in WebIds}
    \cup {[kind |-> "delete", id |-> i] : i \in WebIds}

\* the handler of request r from its start to the call of SaveTodos, on the
\* collection ts it loaded; GenerateID gives each create an ID of its own
Handle(r, op, ts, clock) ==
    CASE op.kind = "create" ->
             createTodo(ts, <<"a">>, "", StoreId(MaxStore + 1 + r), clock)
      [] op.kind = "toggle" -> toggleTodo(ts, op.id, clock)
      [] op.kind = "delete" -> deleteTodo(ts, op.id)

InitWeb ==
    /\ \E n \in 1..(MaxStore + 1) : disk = WebStore(n)
    /\ webStore0 = disk
    /\ webOp \in [Reqs -> WebOps]
    /\ webPc = [r \in Reqs |-> "start"]
    /\ webCopy = [r \in Reqs |-> <<>>]
    /\ webRet = [r \in Reqs |-> "none"]
    /\ webTrace = <<>>
    /\ pc = "shell"
    /\ rawMode = FALSE
    /\ altScreen = FALSE
    /\ now = 0
    /\ NoSession
    /\ NoFind
    /\ NoDoctor
    /\ NoCmd
    /\ NoRunDelete
    /\ NoNormalize
    /\ NoFindRoot
    /\ NoRoundTrip
    /\ NoFilter
    /\ NoFixRun
    /\ NoGit
    /\ NoInit
    /\ NoInput
    /\ NoDelete

\* a handler that takes the file as it is when it saves: its change is
\* applied to the collection another handler has written meanwhile
HandlerSave_OnCurrent ==
    /\ \E r \in Reqs, ok \in BOOLEAN :
         /\ webPc[r] = "loaded"
         /\ disk' = SaveTodos(ok, Handle(r, webOp[r], disk, now + 1).todos, disk)
         /\ webPc' = [webPc EXCEPT ![r] = "done"]
         /\ webRet' = [webRet EXCEPT ![r] = IF ok THEN "ok" ELSE "error"]
         /\ webTrace' = Append(webTrace, <<"save", r>>)
    /\ UNCHANGED <<webOp, webCopy, webStore0>>
    /\ UNCHANGED nonWebVars

\* a handler up to its SaveTodos call: LoadTodos, the lookup and the change
\* of its own slice; a request that fails before that is answered at once
HandlerLoad ==
    /\ \E r \in Reqs :
         LET res == Handle(r, webOp[r], disk, now + 1)
         IN /\ webPc[r] = "start"
            /\ webTrace' = Append(webTrace, <<"load", r>>)
            /\ IF res.err
               THEN /\ webPc' = [webPc EXCEPT ![r] = "done"]
                    /\ webRet' = [webRet EXCEPT ![r] = "error"]
                    /\ UNCHANGED webCopy
               ELSE /\ webPc' = [webPc EXCEPT ![r] = "loaded"]
                    /\ webCopy' = [webCopy EXCEPT ![r] = res.todos]
                    /\ UNCHANGED webRet
    /\ UNCHANGED <<disk, webOp, webStore0>>
    /\ UNCHANGED nonWebVars

\* SaveTodos of a handler and its answer
HandlerSave ==
    /\ \E r \in Reqs, ok \in BOOLEAN :
         /\ webPc[r] = "loaded"
         /\ disk' = SaveTodos(ok, webCopy[r], disk)
         /\ webPc' = [webPc EXCEPT ![r] = "done"]
         /\ webRet' = [webRet EXCEPT ![r] = IF ok THEN "ok" ELSE "error"]
         /\ webTrace' = Append(webTrace, <<"save", r>>)
    /\ UNCHANGED <<webOp, webCopy, webStore0>>
    /\ UNCHANGED nonWebVars

NextWeb ==
    \/ HandlerLoad
    \/ HandlerSave

SpecWeb == InitWeb /\ [][NextWeb]_vars

(***************************************************************************)
(* `todo init`: InitProject and the exit status of the command.  The       *)
(* project directory is the marker .todos, the collection in todos.json    *)
(* and config.json.                                                        *)
(***************************************************************************)
\* types.DefaultConfig
DefaultConfig == [version |-> 1, autoGit |-> TRUE]

\* a config.json the user has changed
CustomConfig == [version |-> 1, autoGit |-> FALSE]

\* the steps of InitProject an I/O error can hit
IoFailures == {"none", "mkdir", "todos", "config"}

\* an InitProject that keeps the collection of an initialized project
InitProject_KeepsTodos(dir, force, io) ==
    IF ~force /\ dir.marker
    THEN [err |-> "AlreadyInitialized", dir |-> dir]
    ELSE IF io = "mkdir" /\ ~dir.marker
    THEN [err |-> "io", dir |-> dir]
    ELSE IF io = "todos"
    THEN [err |-> "io", dir |-> [dir EXCEPT !.marker = TRUE]]
    ELSE IF io = "config"
    THEN [err |-> "io", dir |-> [dir EXCEPT !.marker = TRUE]]
    ELSE [err |-> "none",
          dir |-> [marker |-> TRUE, todos |-> dir.todos, config |-> <<DefaultConfig>>]]

\* InitProject on the directory dir; io names the call that fails: MkdirAll
\* (it succeeds on a directory that exists), saveTodoFile or SaveConfig
InitProject(dir, force, io) ==
    IF ~force /\ dir.marker
    THEN [err |-> "AlreadyInitialized", dir |-> dir]
    ELSE IF io = "mkdir" /\ ~dir.marker
    THEN [err |-> "io", dir |-> dir]
    ELSE IF io = "todos"
    THEN [err |-> "io", dir |-> [dir EXCEPT !.marker = TRUE]]
    ELSE IF io = "config"
    THEN [err |-> "io", dir |-> [dir EXCEPT !.marker = TRUE, !.todos = <<>>]]
    ELSE [err |-> "none",
          dir |-> [marker |-> TRUE, todos |-> <<>>, config |-> <<DefaultConfig>>]]

\* runInit and Execute: nil for AlreadyInitializedError, the wrapped error
\* otherwise; Execute exits with 1 on an error
runInit(err) == IF err \in {"none", "AlreadyInitialized"} THEN 0 ELSE 1

InitInit ==
    /\ marker \in BOOLEAN
    /\ IF marker
       THEN disk \in InitStores /\ config \in {<<>>, <<DefaultConfig>>, <<CustomConfig>>}
       ELSE disk = <<>> /\ config = <<>>
    /\ initForce = FALSE
    /\ initIo = "none"
    /\ initRet = "none"
    /\ initBefore = <<>>
    /\ exitCode = -1
    /\ initPc = "shell"
    /\ pc = "shell"
    /\ rawMode = FALSE
    /\ altScreen = FALSE
    /\ now = 0
    /\ NoSession
    /\ NoFind
    /\ NoDoctor
    /\ NoCmd
    /\ NoRunDelete
    /\ NoNormalize
    /\ NoFindRoot
    /\ NoRoundTrip
    /\ NoFilter
    /\ NoFixRun
    /\ NoGit
    /\ NoInput
    /\ NoDelete
    /\ NoWeb

\* todo init [--force]
RunInit ==
    /\ initPc \in {"shell", "done"}
    /\ \E force \in BOOLEAN, io \in IoFailures :
         LET dir == [marker |-> marker, todos |-> disk, config |-> config]
             res == InitProject(dir, force, io)
         IN /\ initForce' = force
            /\ initIo' = io
            /\ initBefore' = <<dir>>
            /\ initRet' = res.err
            /\ marker' = res.dir.marker
            /\ disk' = res.dir.todos
            /\ config' = res.dir.config
            /\ exitCode' = runInit(res.err)
    /\ initPc' = "done"
    /\ UNCHANGED nonInitVars

NextInit == RunInit

SpecInit == InitInit /\ [][NextInit]_vars

(***************************************************************************)
(* `todo add`: the git context of the new todo.  git is what the commands  *)
(* `git rev-parse` answer in the working directory.                        *)
(***************************************************************************)
\* GetGitContext: (branch, commit, err)
GetGitContext(repo, branch, commit) ==
    IF ~repo THEN [branch |-> "", commit |-> "", err |-> FALSE]
    ELSE IF branch = "err" THEN [branch |-> "", commit |-> "", err |-> TRUE]
    ELSE IF commit = "err" THEN [branch |-> branch, commit |-> "", err |-> TRUE]
    ELSE [branch |-> branch, commit |-> commit, err |-> FALSE]

\* runAdd, "Capture git context unless disabled": the Context.Branch and
\* Context.Commit of the todo NewTodo made (both empty) after the block
CaptureGitContext(noGit, auto, defBranch, repo, branch, commit) ==
    LET none == [branch |-> "", commit |-> ""]
        got == GetGitContext(repo, branch, commit)
    IN IF ~noGit /\ auto /\ repo
       THEN IF ~got.err /\ got.branch # ""
            THEN [branch |-> got.branch, commit |-> got.commit]
            ELSE none
       ELSE IF ~noGit /\ auto /\ defBranch # ""
            THEN [branch |-> defBranch, commit |-> ""]
            ELSE none

InitGit ==
    /\ addNoGit \in BOOLEAN
    /\ autoGit \in BOOLEAN
    /\ defaultBranch \in {"", "main"}
    /\ isRepo \in BOOLEAN
    /\ headBranch \in {"err", "", "dev"}
    /\ headCommit \in {"err", "abc1234"}
    /\ addContext = [branch |-> "", commit |-> ""]
    /\ gitPc = "call"
    /\ disk = <<>>
    /\ pc = "shell"
    /\ rawMode = FALSE
    /\ altScreen = FALSE
    /\ now = 0
    /\ NoSession
    /\ NoFind
    /\ NoDoctor
    /\ NoCmd
    /\ NoRunDelete
    /\ NoNormalize
    /\ NoFindRoot
    /\ NoRoundTrip
    /\ NoFilter
    /\ NoFixRun
    /\ NoInput
    /\ NoDelete
    /\ NoWeb
    /\ NoInit

AddCaptures ==
    /\ gitPc = "call"
    /\ addContext' = CaptureGitContext(addNoGit, autoGit, defaultBranch, isRepo,
                                       headBranch, headCommit)
    /\ gitPc' = "done"
    /\ UNCHANGED <<addNoGit, autoGit, defaultBranch, isRepo, headBranch, headCommit>>
    /\ UNCHANGED nonGitVars

NextGit == AddCaptures

SpecGit == InitGit /\ [][NextGit]_vars

(***************************************************************************)
(* applyDoctorFixes on bounded inputs, and again on its own result.        *)
(***************************************************************************)
InitFixes ==
    /\ \E n \in 0..MaxTodos :
         \E t \in [1..n -> DoctorTexts], p \in [1..n -> DoctorPaths] :
             fixTodos = DoctorStore(n, t, p)
    /\ fixCleaned = <<>>
    /\ fixReport = NoFixes
    /\ fixAgain = [cleaned |-> <<>>, fixes |-> NoFixes]
    /\ fixPc = "call"
    /\ disk = <<>>
    /\ pc = "shell"
    /\ rawMode = FALSE
    /\ altScreen = FALSE
    /\ now = 0
    /\ NoSession
    /\ NoFind
    /\ NoDoctor
    /\ NoCmd
    /\ NoRunDelete
    /\ NoNormalize
    /\ NoFindRoot
    /\ NoRoundTrip
    /\ NoFilter
    /\ NoInput
    /\ NoDelete
    /\ NoWeb
    /\ NoInit
    /\ NoGit

\* cleaned, fixes := applyDoctorFixes(todos, projectRoot)
CallFixes ==
    /\ fixPc = "call"
    /\ LET res == applyDoctorFixes(fixTodos, now + 1)
       IN /\ fixCleaned' = res.cleaned
          /\ fixReport' = res.fixes
    /\ fixPc' = "once"
    /\ UNCHANGED <<fixTodos, fixAgain>>
    /\ UNCHANGED nonFixVars

\* applyDoctorFixes(cleaned, projectRoot), at a later time
CallFixesAgain ==
    /\ fixPc = "once"
    /\ fixAgain' = applyDoctorFixes(fixCleaned, now + 2)
    /\ fixPc' = "twice"
    /\ UNCHANGED <<fixTodos, fixCleaned, fixReport>>
    /\ UNCHANGED nonFixVars

NextFixes ==
    \/ CallFixes
    \/ CallFixesAgain

SpecFixes == InitFixes /\ [][NextFixes]_vars

(***************************************************************************)
(* FilterTodosByPath and FilterTodosByBranch, and the three filters on     *)
(* bounded inputs.  A todo of a filter call is [id, status, paths,         *)
(* branch]; a path is the sequence of its characters.                      *)
(***************************************************************************)
\* len(p) >= len(pathPrefix) && p[:len(pathPrefix)] == pathPrefix
HasPathPrefix(p, pathPrefix) ==
    Len(p) >= Len(pathPrefix) /\ SubSeq(p, 1, Len(pathPrefix)) = pathPrefix

\* a path filter that takes the prefix for whole path segments
FilterTodosByPath_Segments(ts, pathPrefix) ==
    SelectSeq(ts, LAMBDA t :
        \E k \in 1..Len(t.paths) :
            /\ HasPathPrefix(t.paths[k], pathPrefix)
            /\ \/ Len(t.paths[k]) = Len(pathPrefix)
               \/ t.paths[k][Len(pathPrefix) + 1] = "/")

\* the inner loop of FilterTodosByPath from path k on: t is appended at the
\* first path with the prefix, and the loop breaks
RECURSIVE FilterPathLoop(_, _, _, _)
FilterPathLoop(filtered, t, k, pathPrefix) ==
    IF k > Len(t.paths) THEN filtered
    ELSE IF HasPathPrefix(t.paths[k], pathPrefix) THEN Append(filtered, t)
    ELSE FilterPathLoop(filtered, t, k + 1, pathPrefix)

\* the outer loop of FilterTodosByPath from todo i on
RECURSIVE FilterTodosLoop(_, _, _, _)
FilterTodosLoop(filtered, ts, i, pathPrefix) ==
    IF i > Len(ts) THEN filtered
    ELSE FilterTodosLoop(FilterPathLoop(filtered, ts[i], 1, pathPrefix), ts, i + 1, pathPrefix)

FilterTodosByPath(ts, pathPrefix) == FilterTodosLoop(<<>>, ts, 1, pathPrefix)

FilterTodosByBranch(ts, branch) == SelectSeq(ts, LAMBDA t : t.branch = branch)

\* the paths of the calls: "a", "a/b", "ab", "b"
FilterPathA == <<"a">>
FilterPathAB == <<"a", "/", "b">>
FilterPathAb == <<"a", "b">>
FilterPathB == <<"b">>

\* the todos of the calls, without their ids
FilterShapes ==
    {[status |-> StatusOpen, paths |-> <<>>, branch |-> ""],
     [status |-> StatusDone, paths |-> <<FilterPathA>>, branch |-> "main"],
     [status |-> StatusOpen, paths |-> <<FilterPathB, FilterPathAB>>, branch |-> "dev"],
     [status |-> StatusBlocked, paths |-> <<FilterPathAb, FilterPathAB>>, branch |-> "main"],
     [status |-> StatusDone, paths |-> <<FilterPathB>>, branch |-> ""]}

\* the filter calls: the filter and its argument
FilterCalls ==
    {[kind |-> "status", arg |-> [status |-> st, pathPrefix |-> <<>>, branch |-> ""]]
        : st \in {StatusOpen, StatusDone, StatusWaiting}}
    \cup {[kind |-> "path", arg |-> [status |-> "", pathPrefix |-> pre, branch |-> ""]]
             : pre \in {<<>>, FilterPathA, FilterPathAB}}
    \cup {[kind |-> "branch", arg |-> [status |-> "", pathPrefix |-> <<>>, branch |-> b]]
             : b \in {"", "main", "feature"}}

InitFilter ==
    /\ \E n \in 0..MaxTodos :
         \E f \in [1..n -> FilterShapes] :
             fltTodos = [i \in 1..n |-> [id |-> i, status |-> f[i].status,
                                         paths |-> f[i].paths, branch |-> f[i].branch]]
    /\ \E call \in FilterCalls : fltKind = call.kind /\ fltArg = call.arg
    /\ fltOut = <<>>
    /\ fltPc = "call"
    /\ disk = <<>>
    /\ pc = "shell"
    /\ rawMode = FALSE
    /\ altScreen = FALSE
    /\ now = 0
    /\ NoSession
    /\ NoFind
    /\ NoDoctor
    /\ NoCmd
    /\ NoRunDelete
    /\ NoNormalize
    /\ NoFindRoot
    /\ NoRoundTrip
    /\ NoInput
    /\ NoDelete
    /\ NoWeb
    /\ NoInit
    /\ NoGit
    /\ NoFixRun

CallFilter ==
    /\ fltPc = "call"
    /\ fltOut' = CASE fltKind = "status" -> FilterTodosByStatus(fltTodos, fltArg.status)
                   [] fltKind = "path" -> FilterTodosByPath(fltTodos, fltArg.pathPrefix)
                   [] fltKind = "branch" -> FilterTodosByBranch(fltTodos, fltArg.branch)
    /\ fltPc' = "done"
    /\ UNCHANGED <<fltTodos, fltKind, fltArg>>
    /\ UNCHANGED nonFilterVars

NextFilter == CallFilter

SpecFilter == InitFilter /\ [][NextFilter]_vars

(***************************************************************************)
(* SaveTodos and LoadTodos through encoding/json.  A Go string is the      *)
(* sequence of its units: a letter, "<", or a byte that is not valid       *)
(* UTF-8.  A JSON string is the sequence of what the file holds for them.  *)
(* A todo here is [id, text, status, priority, paths, branch, commit,      *)
(* source]; a JSON object is a function on the keys it has.                *)
(***************************************************************************)
\* a byte that starts no valid UTF-8 sequence, such as 0xE9 of Latin-1
InvalidByte == "\\xE9"

\* the Unicode replacement rune U+FFFD
ReplacementRune == "U+FFFD"

\* json.Marshal of a string: invalid UTF-8 is replaced by U+FFFD, and "<"
\* is written as the escape <
MarshalString(str) ==
    [i \in 1..Len(str) |->
        IF str[i] = InvalidByte THEN ReplacementRune
        ELSE IF str[i] = "<" THEN "\\u003c"
        ELSE str[i]]

\* json.Unmarshal of a string: escapes are resolved
UnmarshalString(js) == [i \in 1..Len(js) |-> IF js[i] = "\\u003c" THEN "<" ELSE js[i]]

\* the keys of the object json.Marshal writes for a todo: omitempty drops
\* an empty priority, paths, branch, commit and source
MarshalKeys(todo) ==
    {"id", "text", "status"}
    \cup (IF todo.priority # "" THEN {"priority"} ELSE {})
    \cup (IF Len(todo.paths) > 0 THEN {"paths"} ELSE {})
    \cup (IF todo.branch # "" THEN {"branch"} ELSE {})
    \cup (IF todo.commit # "" THEN {"commit"} ELSE {})
    \cup (IF todo.source # "" THEN {"source"} ELSE {})

\* json.Marshal of a todo
MarshalTodo(todo) ==
    [key \in MarshalKeys(todo) |->
        CASE key = "id" -> MarshalString(todo.id)
          [] key = "text" -> MarshalString(todo.text)
          [] key = "paths" -> [k \in 1..Len(todo.paths) |-> MarshalString(todo.paths[k])]
          [] key = "status" -> todo.status
          [] key = "priority" -> todo.priority
          [] key = "branch" -> todo.branch
          [] key = "commit" -> todo.commit
          [] key = "source" -> todo.source]

\* json.Unmarshal of an object into a Todo: a field without a key keeps its
\* zero value
UnmarshalTodo(obj) ==
    LET Field(key) == IF key \in DOMAIN obj THEN obj[key] ELSE ""
        Units(key) == IF key \in DOMAIN obj THEN obj[key] ELSE <<>>
    IN [id |-> UnmarshalString(Units("id")),
        text |-> UnmarshalString(Units("text")),
        status |-> Field("status"),
        priority |-> Field("priority"),
        paths |-> [k \in 1..Len(Units("paths")) |-> UnmarshalString(Units("paths")[k])],
        branch |-> Field("branch"),
        commit |-> Field("commit"),
        source |-> Field("source")]

\* saveTodoFile: the document {"version": 1, "todos": [...]}
SaveTodosJSON(ts) == [form |-> "envelope", todos |-> [i \in 1..Len(ts) |-> MarshalTodo(ts[i])]]

\* LoadTodos: no file gives the empty collection; a document that is
\* neither an object nor an array of todos gives the parse error; an array
\* fails to unmarshal into TodoFile and is read as []Todo
LoadTodosJSON(file) ==
    IF file.form = "missing" THEN [todos |-> <<>>, err |-> FALSE]
    ELSE IF file.form \in {"envelope", "array"}
    THEN [todos |-> [i \in 1..Len(file.todos) |-> UnmarshalTodo(file.todos[i])],
          err |-> FALSE]
    ELSE [todos |-> <<>>, err |-> TRUE]

\* the todos saved, without their ids: NewTodo's defaults, one with an
\* escaped character, paths and git context, one without priority and
\* source, one whose text came from a Latin-1 command line
RoundTripShapes ==
    {[text |-> <<"a">>, status |-> StatusOpen, priority |-> PriorityMedium, paths |-> <<>>,
      branch |-> "", commit |-> "", source |-> "cli"],
     [text |-> <<"a", "<">>, status |-> StatusDone, priority |-> PriorityHigh,
      paths |-> <<<<"s">>, <<"d", "<">>>>, branch |-> "main", commit |-> "abc1234",
      source |-> "cli"],
     [text |-> <<"b">>, status |-> StatusBlocked, priority |-> "", paths |-> <<>>,
      branch |-> "", commit |-> "", source |-> ""],
     [text |-> <<"c", InvalidByte>>, status |-> StatusOpen, priority |-> PriorityLow,
      paths |-> <<>>, branch |-> "", commit |-> "", source |-> "cli"]}

\* the collection of n todos with the shapes f
RoundTripStore(n, f) ==
    [i \in 1..n |-> [id |-> <<"i", DecimalDigits[i + 1]>>, text |-> f[i].text,
                     status |-> f[i].status, priority |-> f[i].priority,
                     paths |-> f[i].paths, branch |-> f[i].branch,
                     commit |-> f[i].commit, source |-> f[i].source]]

\* a run starts before SaveTodos with a collection in memory, or before
\* LoadTodos with no file, an array document or a document that is no JSON
InitRoundTrip ==
    /\ \E n \in 0..MaxTodos :
         \E f \in [1..n -> RoundTripShapes] :
             \/ /\ rtTodos = RoundTripStore(n, f)
                /\ rtFile = [form |-> "missing", todos |-> <<>>]
                /\ rtPc = "save"
             \/ /\ rtTodos = <<>>
                /\ rtFile \in {[form |-> "array", todos |-> SaveTodosJSON(RoundTripStore(n, f)).todos],
                               [form |-> "missing", todos |-> <<>>],
                               [form |-> "garbage", todos |-> <<>>]}
                /\ rtPc = "load"
    /\ rtLoaded = [todos |-> <<>>, err |-> FALSE]
    /\ disk = <<>>
    /\ pc = "shell"
    /\ rawMode = FALSE
    /\ altScreen = FALSE
    /\ now = 0
    /\ NoSession
    /\ NoFind
    /\ NoDoctor
    /\ NoCmd
    /\ NoRunDelete
    /\ NoNormalize
    /\ NoFindRoot
    /\ NoInput
    /\ NoDelete
    /\ NoWeb
    /\ NoInit
    /\ NoGit
    /\ NoFixRun
    /\ NoFilter

\* SaveTodos(projectRoot, todos), the write succeeds
SaveJSON ==
    /\ rtPc = "save"
    /\ rtFile' = SaveTodosJSON(rtTodos)
    /\ rtPc' = "saved"
    /\ UNCHANGED <<rtTodos, rtLoaded>>
    /\ UNCHANGED nonRoundTripVars

\* LoadTodos(projectRoot)
LoadJSON ==
    /\ rtPc \in {"saved", "load"}
    /\ rtLoaded' = LoadTodosJSON(rtFile)
    /\ rtPc' = IF rtPc = "saved" THEN "reloaded" ELSE "loaded"
    /\ UNCHANGED <<rtTodos, rtFile>>
    /\ UNCHANGED nonRoundTripVars

NextRoundTrip ==
    \/ SaveJSON
    \/ LoadJSON

SpecRoundTrip == InitRoundTrip /\ [][NextRoundTrip]_vars

(***************************************************************************)
(* FindProjectRoot.  A directory is the sequence of its components below   *)
(* the filesystem root; markers[d + 1] says what .todos is in the ancestor *)
(* of depth d of the start directory: nothing, a file or a directory.      *)
(***************************************************************************)
\* filepath.Dir: the parent, and the root for the root
Dir(path) == IF path = <<>> THEN <<>> ELSE SubSeq(path, 1, Len(path) - 1)

\* a test that takes any .todos entry, file or directory
StatIsDir_AnyEntry(path) == markers[Len(path) + 1] # "none"

\* os.Stat(filepath.Join(current, TodosDir)) gives no error and a directory
StatIsDir(path) == markers[Len(path) + 1] = "dir"

\* the arguments: "." in a working directory, an absolute path, and "." in
\* a working directory that was removed, for which filepath.Abs fails
StartPaths ==
    {[arg |-> ".", abs |-> [i \in 1..d |-> "d"], absErr |-> FALSE] : d \in 0..MaxDepth}
    \cup {[arg |-> "/abs", abs |-> [i \in 1..d |-> "d"], absErr |-> FALSE] : d \in 0..MaxDepth}
    \cup {[arg |-> ".", abs |-> <<>>, absErr |-> TRUE]}

InitFindRoot ==
    /\ startPath \in StartPaths
    /\ markers \in [1..(Len(startPath.abs) + 1) -> {"none", "file", "dir"}]
    /\ current = <<>>
    /\ rootRet = [root |-> <<>>, err |-> "", searchPath |-> ""]
    /\ rootPc = "abs"
    /\ disk = <<>>
    /\ pc = "shell"
    /\ rawMode = FALSE
    /\ altScreen = FALSE
    /\ now = 0
    /\ NoSession
    /\ NoFind
    /\ NoDoctor
    /\ NoCmd
    /\ NoRunDelete
    /\ NoNormalize
    /\ NoInput
    /\ NoDelete
    /\ NoWeb
    /\ NoInit
    /\ NoGit
    /\ NoFixRun
    /\ NoFilter
    /\ NoRoundTrip

\* absPath, err := filepath.Abs(startPath); current := absPath
FindRootAbs ==
    /\ rootPc = "abs"
    /\ IF startPath.absErr
       THEN /\ rootRet' = [root |-> <<>>, err |-> "abs", searchPath |-> ""]
            /\ rootPc' = "done"
            /\ UNCHANGED current
       ELSE /\ current' = startPath.abs
            /\ rootPc' = "loop"
            /\ UNCHANGED rootRet
    /\ UNCHANGED <<startPath, markers>>
    /\ UNCHANGED nonFindRootVars

\* one round of the loop that returns current
FindRootFound ==
    /\ rootPc = "loop"
    /\ StatIsDir(current)
    /\ rootRet' = [root |-> current, err |-> "", searchPath |-> ""]
    /\ rootPc' = "done"
    /\ UNCHANGED <<startPath, markers, current>>
    /\ UNCHANGED nonFindRootVars

\* one round of the loop that goes to the parent
FindRootUp ==
    /\ rootPc = "loop"
    /\ ~StatIsDir(current)
    /\ Dir(current) # current
    /\ current' = Dir(current)
    /\ UNCHANGED <<startPath, markers, rootRet, rootPc>>
    /\ UNCHANGED nonFindRootVars

\* one round of the loop that has reached the root
FindRootNotFound ==
    /\ rootPc = "loop"
    /\ ~StatIsDir(current)
    /\ Dir(current) = current
    /\ rootRet' = [root |-> <<>>, err |-> "ProjectNotFound", searchPath |-> startPath.arg]
    /\ rootPc' = "done"
    /\ UNCHANGED <<startPath, markers, current>>
    /\ UNCHANGED nonFindRootVars

NextFindRoot ==
    \/ FindRootAbs
    \/ FindRootFound
    \/ FindRootUp
    \/ FindRootNotFound

\* the call runs on: nothing but its own steps is needed for the next one
SpecFindRoot == InitFindRoot /\ [][NextFindRoot]_vars /\ WF_vars(NextFindRoot)

(***************************************************************************)
(* normalizePaths.  A --path value is the sequence of its characters.      *)
(***************************************************************************)
\* strings.Split(v, ","): the pieces between the commas, one more than
\* there are commas
RECURSIVE SplitLoop(_, _, _)
SplitLoop(v, piece, acc) ==
    IF v = <<>> THEN Append(acc, piece)
    ELSE IF Head(v) = "," THEN SplitLoop(Tail(v), <<>>, Append(acc, piece))
    ELSE SplitLoop(Tail(v), Append(piece, Head(v)), acc)

Split(v) == SplitLoop(v, <<>>, <<>>)

\* a loop body that appends the trimmed piece without looking at it
RECURSIVE normalizePathsLoop_KeepEmpty(_, _, _)
normalizePathsLoop_KeepEmpty(raw, pieces, paths) ==
    IF pieces # <<>>
    THEN normalizePathsLoop_KeepEmpty(raw, Tail(pieces), Append(paths, TrimSpace(Head(pieces))))
    ELSE IF raw = <<>> THEN paths
    ELSE normalizePathsLoop_KeepEmpty(Tail(raw), Split(Head(raw)), paths)

\* the two loops of normalizePaths: pieces is what is left of the entry
\* being split, raw the entries after it, paths the result so far
RECURSIVE normalizePathsLoop(_, _, _)
normalizePathsLoop(raw, pieces, paths) ==
    IF pieces # <<>>
    THEN LET pth == TrimSpace(Head(pieces))
         IN IF pth = <<>>
            THEN normalizePathsLoop(raw, Tail(pieces), paths)
            ELSE normalizePathsLoop(raw, Tail(pieces), Append(paths, pth))
    ELSE IF raw = <<>> THEN paths
    ELSE normalizePathsLoop(Tail(raw), Split(Head(raw)), paths)

normalizePaths(raw) == normalizePathsLoop(raw, <<>>, <<>>)

\* the --path values of the test and some more: empty, commas only, one
\* path, a padded path, two paths in one value, padded with a trailing
\* comma, a path with a space inside
RawEntries ==
    {<<>>, <<",", ",">>, <<" ">>, <<"a">>, <<"b">>, <<" ", "a", " ">>, <<"a", ",", "b">>,
     <<" ", "b", " ", ",", " ", " ", "a", " ", ",">>, <<"a", " ", "b">>, <<",", "a">>}

\* the entries joined by commas into one value
RECURSIVE JoinComma(_)
JoinComma(raw) ==
    IF raw = <<>> THEN <<>>
    ELSE IF Len(raw) = 1 THEN raw[1]
    ELSE raw[1] \o <<",">> \o JoinComma(Tail(raw))

\* the value with a space on both sides of it and of each of its commas
RECURSIVE PadValue(_)
PadValue(v) ==
    IF v = <<>> THEN <<" ">>
    ELSE IF Head(v) = "," THEN <<" ", ",">> \o PadValue(Tail(v))
    ELSE IF Len(v) = 1 THEN <<" ", v[1], " ">>
    ELSE IF v[2] = "," THEN <<" ">> \o <<Head(v)>> \o PadValue(Tail(v))
    ELSE <<" ", v[1]>> \o Tail(PadValue(Tail(v)))

InitNormalize ==
    /\ \E n \in 0..MaxRaw : npRaw \in [1..n -> RawEntries]
    /\ npOut = <<>>
    /\ npOther = [joined |-> <<>>, padded |-> <<>>]
    /\ npAgain = <<>>
    /\ npPc = "call"
    /\ disk = <<>>
    /\ pc = "shell"
    /\ rawMode = FALSE
    /\ altScreen = FALSE
    /\ now = 0
    /\ NoSession
    /\ NoFind
    /\ NoDoctor
    /\ NoCmd
    /\ NoRunDelete
    /\ NoInput
    /\ NoDelete
    /\ NoWeb
    /\ NoInit
    /\ NoGit
    /\ NoFixRun
    /\ NoFilter
    /\ NoRoundTrip
    /\ NoFindRoot

\* normalizePaths(raw)
CallNormalize ==
    /\ npPc = "call"
    /\ npOut' = normalizePaths(npRaw)
    /\ npPc' = "done"
    /\ UNCHANGED <<npRaw, npOther, npAgain>>
    /\ UNCHANGED nonNormalizeVars

\* normalizePaths of the same paths in one value, and with padding
CallNormalizeOther ==
    /\ npPc = "done"
    /\ npOther' = [joined |-> normalizePaths(<<JoinComma(npRaw)>>),
                   padded |-> normalizePaths([i \in 1..Len(npRaw) |-> PadValue(npRaw[i])])]
    /\ npPc' = "other"
    /\ UNCHANGED <<npRaw, npOut, npAgain>>
    /\ UNCHANGED nonNormalizeVars

\* normalizePaths of the result
CallNormalizeAgain ==
    /\ npPc = "other"
    /\ npAgain' = normalizePaths(npOut)
    /\ npPc' = "twice"
    /\ UNCHANGED <<npRaw, npOut, npOther>>
    /\ UNCHANGED nonNormalizeVars

NextNormalize ==
    \/ CallNormalize
    \/ CallNormalizeOther
    \/ CallNormalizeAgain

SpecNormalize == InitNormalize /\ [][NextNormalize]_vars

(***************************************************************************)
(* `todo delete <id|index>`.  target is a pointer into the slice LoadTodos *)
(* returned; DeleteTodo appends todos[index+1:] to todos[:index], which    *)
(* has the capacity for it, so the elements after index are copied one     *)
(* place down inside the array target points into.                         *)
(***************************************************************************)
\* the stores of `todo delete`: n todos with the IDs and texts of their
\* places and the statuses f
RunDeleteStore(n, f) ==
    [i \in 1..n |-> [id |-> <<"a", DecimalDigits[i + 1]>>, text |-> <<"t", DecimalDigits[i + 1]>>,
                     status |-> f[i], priority |-> PriorityMedium, updatedAt |-> 0]]

\* the tokens of `todo delete`: the positions up to one past the end, and the IDs
RunDeleteTokens ==
    {<<DecimalDigits[k + 1]>> : k \in 1..(MaxTodos + 1)}
    \cup {<<"a", DecimalDigits[k + 1]>> : k \in 1..(MaxTodos + 1)}

InitRunDelete ==
    /\ \E n \in 0..MaxTodos : \E f \in [1..n -> InitStatuses] : disk = RunDeleteStore(n, f)
    /\ rdBefore = <<>>
    /\ rdTarget = -1
    /\ rdOut = [err |-> "", text |-> <<>>]
    /\ rdPc = "call"
    /\ pc = "shell"
    /\ rawMode = FALSE
    /\ altScreen = FALSE
    /\ now = 0
    /\ NoSession
    /\ NoFind
    /\ NoDoctor
    /\ NoCmd
    /\ NoInput
    /\ NoDelete
    /\ NoWeb
    /\ NoInit
    /\ NoGit
    /\ NoFixRun
    /\ NoFilter
    /\ NoRoundTrip
    /\ NoFindRoot
    /\ NoNormalize

\* todo delete <token>; a write that fails is returned as an error and
\* nothing is printed
CliRunDelete ==
    /\ rdPc \in {"call", "done"}
    /\ \E token \in RunDeleteTokens, ok \in BOOLEAN :
         LET r == runDelete(disk, token)
         IN /\ rdBefore' = disk
            /\ rdTarget' = r.at
            /\ IF r.save
               THEN /\ disk' = SaveTodos(ok, r.todos, disk)
                    /\ rdOut' = IF ok THEN [err |-> "", text |-> r.text]
                                ELSE [err |-> "save", text |-> <<>>]
               ELSE /\ rdOut' = [err |-> "TodoNotFound", text |-> <<>>]
                    /\ UNCHANGED disk
    /\ rdPc' = "done"
    /\ UNCHANGED <<todos, selectedIndex, showDeleteConfirm, pc, rawMode, altScreen, now,
                   target, saveErr, saved>>
    /\ UNCHANGED nonRunDeleteVars

NextRunDelete == CliRunDelete

SpecRunDelete == InitRunDelete /\ [][NextRunDelete]_vars

(***************************************************************************)
(* Properties of the interactive session.                                  *)
(***************************************************************************)
\* C1: while the session runs, the cursor is within [0, len(todos)-1].
C1_CursorInRange == Running => (0 <= selectedIndex /\ selectedIndex <= Len(todos) - 1)

\* C1 witness: the session goes on after a delete (a save without a toggle)
\* that took the last of three rows, the cursor now on the new last row.
C1_Witness ==
    /\ pc = "Browsing"
    /\ now = 0 /\ saved = todos
    /\ Len(todos) = 2
    /\ todos[1].id = 1 /\ todos[2].id = 2
    /\ selectedIndex = 1

\* C2: once a mutating keypress (toggle, confirmed delete) has been handled,
\* the persisted collection equals the working copy of the running session.
\* (saved is non-empty exactly when such a keypress has called SaveTodos.)
C2_PersistedEqualsWorkingCopy == (Running /\ saved # <<>>) => disk = todos

\* C10: a confirmed delete removes exactly the todo that was under the cursor
\* when the delete key was pressed and keeps the others in order, hands the
\* result to SaveTodos (the file holds it when the write succeeds), lowers
\* the cursor by one only if it points past the new end and is not 0, and
\* goes back to Browsing, or ends the session when nothing is left.
C10_ConfirmedDelete ==
    [][ConfirmYes =>
          /\ \E i \in 1..Len(todos) :
               /\ todos[i].id = target
               /\ i = selectedIndex + 1
               /\ Len(todos') = Len(todos) - 1
               /\ \A j \in 1..Len(todos') :
                    todos'[j] = IF j < i THEN todos[j] ELSE todos[j + 1]
          /\ saved' = todos'
          /\ (~saveErr' => disk' = todos')
          /\ selectedIndex' = IF selectedIndex > Len(todos') - 1 /\ selectedIndex > 0
                              THEN selectedIndex - 1
                              ELSE selectedIndex
          /\ selectedIndex' >= 0
          /\ IF Len(todos') = 0
             THEN pc' = "Exited"
             ELSE pc' = "Browsing" /\ showDeleteConfirm' = FALSE]_vars

\* C10 witness: the middle one of three todos was deleted (and nothing
\* toggled), the file holds the result and the session is back in Browsing
\* with the cursor on what was the third todo.
C10_Witness ==
    /\ pc = "Browsing"
    /\ now = 0 /\ saved = todos /\ disk = todos
    /\ Len(todos) = 2
    /\ todos[1].id = 1 /\ todos[2].id = 3
    /\ selectedIndex = 1

\* C11: in ConfirmingDelete a key other than y/Y leaves the todos, the file
\* and the cursor as they are; n, N, Esc and q lead back to Browsing, any
\* other key keeps the confirmation open.  (Every step from ConfirmingDelete
\* either has this effect of the key or is not a press of it.)
C11_ConfirmOtherKeys ==
    [][pc = "ConfirmingDelete" =>
          \A key \in Keys \ {"y", "Y"} :
              \/ /\ pc' = IF key \in {"n", "N", "ESC", "q"}
                           THEN "Browsing"
                           ELSE "ConfirmingDelete"
                 /\ selectedIndex' = selectedIndex
                 /\ todos' = todos
                 /\ disk' = disk
              \/ ~ConfirmPress(key)]_vars

\* C11 witness: the confirmation for the second of three todos is open and
\* nothing has been saved: the state a key that is neither y/Y nor a cancel
\* key leaves in place.
C11_Witness ==
    /\ pc = "ConfirmingDelete"
    /\ showDeleteConfirm
    /\ Len(todos) = 3
    /\ selectedIndex = 1
    /\ target = 2
    /\ saved = <<>>
    /\ disk = todos

\* C12: in Browsing, space or enter changes the selected todo only: done
\* becomes open and every other status done, its updatedAt is the new
\* reading of the clock; the other todos and the cursor stay, the working
\* copy is handed to SaveTodos (the file holds it when the write succeeds)
\* and the session stays in Browsing.
C12_ToggleSelectedOnly ==
    [][pc = "Browsing" =>
          \A key \in {"SPACE", "ENTER"} :
              \/ LET i == selectedIndex + 1
                 IN /\ pc' = "Browsing"
                    /\ now' > now
                    /\ selectedIndex' = selectedIndex
                    /\ Len(todos') = Len(todos)
                    /\ todos'[i].id = todos[i].id
                    /\ todos'[i].status = IF todos[i].status = "done" THEN "open" ELSE "done"
                    /\ todos'[i].updatedAt = now'
                    /\ \A j \in 1..Len(todos) : j # i => todos'[j] = todos[j]
                    /\ saved' = todos'
                    /\ (~saveErr' => disk' = todos')
              \/ ~BrowsePress(key)]_vars

\* C12 witness: the second of two todos was toggled to done at time 1, the
\* first is untouched, the file holds the working copy.
C12_Witness ==
    /\ pc = "Browsing"
    /\ now = 1
    /\ Len(todos) = 2
    /\ selectedIndex = 1
    /\ todos[2].status = "done" /\ todos[2].updatedAt = 1
    /\ todos[1].updatedAt = 0
    /\ saved = todos /\ disk = todos /\ ~saveErr

\* C13: the terminal is in raw mode and on the alternate screen exactly
\* while the session loop runs: every return of the session has restored
\* both, and without raw mode the loop does not run (the list is static).
C13_TerminalRestored ==
    /\ (rawMode <=> Running)
    /\ (altScreen <=> Running)
    /\ (pc \in {"Exited", "Static", "Empty", "shell"} => ~rawMode /\ ~altScreen)

\* C13 witness: the session has returned after a confirmed delete emptied
\* the collection, and the terminal is restored.
C13_Witness ==
    /\ pc = "Exited"
    /\ todos = <<>>
    /\ ~rawMode /\ ~altScreen

\* the keys the claim C15 is about: every key but those of the quit, toggle,
\* delete and help cases
CursorAndOtherKeys ==
    Keys \ {"q", "Q", "ESC", "SPACE", "ENTER", "d", "D", "x", "X", "?", "h", "H"}

\* C15: in Browsing, DOWN/j raises the cursor by one unless it is at
\* len-1, UP/k lowers it by one unless it is 0, g sets it to 0 and G to
\* len-1; these keys and the keys no case names leave the todos and the
\* file as they are and keep the session in Browsing.  (Every step from
\* Browsing either has this effect of the key or is not a press of it.)
C15_CursorKeys ==
    [][pc = "Browsing" =>
          \A key \in CursorAndOtherKeys :
              \/ /\ pc' = "Browsing"
                 /\ selectedIndex' =
                       IF key \in {"DOWN", "j"}
                       THEN (IF selectedIndex = Len(todos) - 1
                             THEN selectedIndex ELSE selectedIndex + 1)
                       ELSE IF key \in {"UP", "k"}
                       THEN (IF selectedIndex = 0 THEN 0 ELSE selectedIndex - 1)
                       ELSE IF key = "g" THEN 0
                       ELSE IF key = "G" THEN Len(todos) - 1
                       ELSE selectedIndex
                 /\ todos' = todos
                 /\ disk' = disk
              \/ ~BrowsePress(key)]_vars

\* C15 witness: the cursor is on the last of three rows and nothing has
\* been saved (reached by G, or by DOWN twice).
C15_Witness ==
    /\ pc = "Browsing"
    /\ Len(todos) = 3
    /\ selectedIndex = 2
    /\ saved = <<>>
    /\ disk = todos

C14_QuitOnKeypressAlone ==
    (lastTyped \in {"q", "ESC"} /\ stdin = <<>>) =>
        /\ pc = "Exited"
        /\ saved = <<>>

(***************************************************************************)
(* Properties of FindTodoByIDOrIndex.                                      *)
(***************************************************************************)
\* the ID id is longer than the token and starts with it
ProperPrefix(token, id) == Len(id) > Len(token) /\ SubSeq(id, 1, Len(token)) = token

\* the decimal form of an integer between -99 and 99
Decimal(k) ==
    IF k < 10
    THEN <<DecimalDigits[k + 1]>>
    ELSE <<DecimalDigits[(k \div 10) + 1], DecimalDigits[(k % 10) + 1]>>

DecimalForm(k) == IF k < 0 THEN <<"-">> \o Decimal(0 - k) ELSE Decimal(k)

\* the token does not start with a sign or a decimal digit
NoLeadingNumber(token) == token = <<>> \/ ~(IsDigit(Head(token)) \/ Head(token) \in {"+", "-"})

\* C3: in a collection with pairwise distinct IDs, the token equal to the ID
\* of a todo resolves to that todo at its position, whatever characters the
\* ID consists of and whatever the other IDs are.
C3_ExactIdResolves ==
    findPc = "returned" =>
        \A i \in 1..Len(findTodos) : findTodos[i].id = idOrIndex => found = i - 1

\* C4: a token of at least 4 characters that is a proper prefix of exactly
\* one stored ID and equal to none resolves to the todo with that ID, also
\* when the token starts with decimal digits.
C4_UniquePrefixResolves ==
    (/\ findPc = "returned"
     /\ Len(idOrIndex) >= 4
     /\ \A j \in 1..Len(findTodos) : findTodos[j].id # idOrIndex) =>
        \A i \in 1..Len(findTodos) :
            (/\ ProperPrefix(idOrIndex, findTodos[i].id)
             /\ \A j \in 1..Len(findTodos) :
                  j # i => ~ProperPrefix(idOrIndex, findTodos[j].id)) => found = i - 1

\* C5: the decimal form of an integer k with 1 <= k <= N resolves to the
\* k-th todo (position k-1) of a collection of N todos; for an integer
\* outside 1..N nothing is found, or a todo whose ID the token matches.
C5_DecimalResolvesByPosition ==
    findPc = "returned" =>
        \A k \in -1..12 :
            idOrIndex = DecimalForm(k) =>
                IF 1 <= k /\ k <= Len(findTodos)
                THEN found = k - 1
                ELSE \/ found = -1
                     \/ /\ found \in 0..(Len(findTodos) - 1)
                        /\ \/ findTodos[found + 1].id = idOrIndex
                           \/ /\ Len(idOrIndex) >= 4
                              /\ ProperPrefix(idOrIndex, findTodos[found + 1].id)

\* C5 witness: the token "2" returned the second of three todos.
C5_Witness ==
    /\ findPc = "returned"
    /\ idOrIndex = <<"2">>
    /\ Len(findTodos) = 3
    /\ found = 1

\* C6: for a token that is no integer, a todo whose ID equals the token is
\* returned even when an earlier ID only starts with the token; without an
\* equal ID the first todo whose ID starts with a token of at least 4
\* characters is returned; a shorter token matches no ID by prefix.  (Stated
\* for the tokens that do not start with a sign or a digit.)
C6_ExactBeforePrefix ==
    (findPc = "returned" /\ NoLeadingNumber(idOrIndex)) =>
        LET exact == {i \in 1..Len(findTodos) : findTodos[i].id = idOrIndex}
            byPrefix == {i \in 1..Len(findTodos) :
                           Len(idOrIndex) >= 4 /\ ProperPrefix(idOrIndex, findTodos[i].id)}
        IN IF exact # {}
           THEN found + 1 \in exact
           ELSE IF byPrefix # {}
                THEN \A j \in byPrefix : found + 1 <= j /\ found + 1 \in byPrefix
                ELSE found = -1

(***************************************************************************)
(* Properties of DeleteTodo.                                               *)
(***************************************************************************)
\* C17: for 0 <= i < len DeleteTodo returns the slice without the element at
\* position i, the others in their order (length len-1); for i < 0 or
\* i >= len it returns the slice it was given.
C17_DeleteAt ==
    delPc = "returned" =>
        IF 0 <= delIndex /\ delIndex < Len(delTodos)
        THEN /\ Len(delOut) = Len(delTodos) - 1
             /\ \A j \in 1..Len(delOut) :
                    delOut[j] = delTodos[IF j <= delIndex THEN j ELSE j + 1]
        ELSE delOut = delTodos

\* C17 witness: a call that removed the middle element of three.
C17_Witness ==
    /\ delPc = "returned"
    /\ Len(delTodos) = 3
    /\ delIndex = 1
    /\ Len(delOut) = 2
    /\ delOut[1] = delTodos[1]
    /\ delOut[2] = delTodos[3]

(***************************************************************************)
(* Properties of concurrent web requests.                                  *)
(***************************************************************************)
\* C18: when two handlers run as load, load, save, save and both writes
\* succeed, the file holds the copy of the handler that saved second, which
\* is its own change applied to the collection from before both requests:
\* the change of the handler that saved first is lost.
C18_LastWriterWins ==
    \A a, b \in Reqs :
        (/\ a # b
         /\ webTrace = <<<<"load", a>>, <<"load", b>>, <<"save", a>>, <<"save", b>>>>
         /\ webRet[a] = "ok" /\ webRet[b] = "ok") =>
            /\ disk = webCopy[b]
            /\ disk = Handle(b, webOp[b], webStore0, now + 1).todos

\* C18 witness: request 1 creates a todo, request 2 toggles the first todo;
\* after load, load, save, save the file holds the toggled todo and no
\* created one, though request 1 was answered with success.
C18_Witness ==
    /\ webTrace = <<<<"load", 1>>, <<"load", 2>>, <<"save", 1>>, <<"save", 2>>>>
    /\ webOp[1].kind = "create"
    /\ webOp[2] = [kind |-> "toggle", id |-> StoreId(1)]
    /\ webRet[1] = "ok" /\ webRet[2] = "ok"
    /\ Len(disk) = Len(webStore0)
    /\ disk[1].status = StatusDone
    /\ Len(webCopy[1]) = Len(webStore0) + 1

(***************************************************************************)
(* Properties of `todo init`.                                              *)
(***************************************************************************)
\* C19: a command that failed with an error of the taxonomy exits with a
\* status other than 0, and the status 0 means success (here for `todo init`
\* and the errors AlreadyInitialized and I/O).
C19_FailureExitsNonZero ==
    initPc = "done" => (exitCode = 0 <=> initRet = "none")

\* C20: InitProject on a directory without the marker succeeds and leaves
\* an empty collection and the default config; with the marker and without
\* force it fails with AlreadyInitialized and leaves todos and config as
\* they were; with force it succeeds and leaves an empty collection and the
\* default config whatever was stored (success: no I/O error hits a step).
C20_InitProject ==
    initPc = "done" =>
        LET before == initBefore[1]
            fresh == /\ initRet = "none"
                     /\ marker
                     /\ disk = <<>>
                     /\ config = <<DefaultConfig>>
        IN /\ (~before.marker /\ initIo = "none") => fresh
           /\ (before.marker /\ ~initForce) =>
                  /\ initRet = "AlreadyInitialized"
                  /\ marker
                  /\ disk = before.todos
                  /\ config = before.config
           /\ (initForce /\ initIo = "none") => fresh

\* C20 witness: a forced init of a project that held two todos and a
\* changed config has left an empty collection and the default config.
C20_Witness ==
    /\ initPc = "done"
    /\ initForce
    /\ initBefore[1].marker
    /\ Len(initBefore[1].todos) = 2
    /\ initBefore[1].config = <<CustomConfig>>
    /\ initRet = "none"
    /\ disk = <<>>
    /\ config = <<DefaultConfig>>

(***************************************************************************)
(* Properties of the git context of `todo add`.                            *)
(***************************************************************************)
\* C21: the todo of `todo add` has a branch or a commit only when autoGit is
\* on, --no-git was not given and the working directory is in a git
\* repository; in every other case both are empty.
C21_GitContextOnlyInRepo ==
    gitPc = "done" =>
        ((addContext.branch # "" \/ addContext.commit # "") =>
            (autoGit /\ ~addNoGit /\ isRepo))

(***************************************************************************)
(* Properties of applyDoctorFixes.                                         *)
(***************************************************************************)
\* the positions of the todos that stay: the trimmed text is not empty and
\* no earlier todo has it
KeptPositions(ts) ==
    {i \in 1..Len(ts) :
        /\ TrimSpace(ts[i].text) # <<>>
        /\ \A j \in 1..(i - 1) : TrimSpace(ts[j].text) # TrimSpace(ts[i].text)}

\* how many entries of paths no file exists for
RECURSIVE MissingPaths(_)
MissingPaths(paths) ==
    IF paths = <<>> THEN 0
    ELSE (IF Head(paths) \in ExistingFiles THEN 0 ELSE 1) + MissingPaths(Tail(paths))

\* the sum of MissingPaths over the todos at the positions in set
RECURSIVE MissingIn(_, _)
MissingIn(ts, set) ==
    IF set = {} THEN 0
    ELSE LET i == CHOOSE k \in set : TRUE
         IN MissingPaths(ts[i].paths) + MissingIn(ts, set \ {i})

\* C22: applyDoctorFixes returns the todos whose trimmed text is not empty
\* and not that of an earlier kept todo, in their order, each with the paths
\* that exist; removedEmpty, removedDuplicates and removedOrphanedPaths count
\* the blank todos, the later same-text todos and the path entries dropped
\* from kept todos; a second application to the result returns it unchanged
\* with no fix reported.
C22_DoctorFixes ==
    LET ts == fixTodos
        kept == KeptPositions(ts)
        order == SelectSeq([i \in 1..Len(ts) |-> i], LAMBDA i : i \in kept)
        blank == {i \in 1..Len(ts) : TrimSpace(ts[i].text) = <<>>}
    IN /\ fixPc \in {"once", "twice"} =>
            /\ Len(fixCleaned) = Len(order)
            /\ \A k \in 1..Len(order) :
                   /\ fixCleaned[k].id = ts[order[k]].id
                   /\ fixCleaned[k].text = ts[order[k]].text
                   /\ fixCleaned[k].paths =
                          SelectSeq(ts[order[k]].paths, LAMBDA path : path \in ExistingFiles)
            /\ fixReport.removedEmpty = Cardinality(blank)
            /\ fixReport.removedDuplicates = Len(ts) - Cardinality(blank) - Cardinality(kept)
            /\ fixReport.removedOrphanedPaths = MissingIn(ts, kept)
       /\ fixPc = "twice" =>
            /\ fixAgain.cleaned = fixCleaned
            /\ fixAgain.fixes = NoFixes

\* C22 witness: of three todos, one lost its missing path, one had the same
\* trimmed text and one was blank; one todo is left after the first call and
\* after the second.
C22_Witness ==
    /\ fixPc = "twice"
    /\ Len(fixTodos) = 3
    /\ fixReport = [removedOrphanedPaths |-> 1, removedEmpty |-> 1, removedDuplicates |-> 1]
    /\ Len(fixCleaned) = 1
    /\ fixCleaned[1].paths = <<"keep.txt">>
    /\ Len(fixAgain.cleaned) = 1

(***************************************************************************)
(* Properties of the filters.                                              *)
(***************************************************************************)
\* the predicate of the filter that was called, on the todo t
FilterHolds(t) ==
    CASE fltKind = "status" -> t.status = fltArg.status
      [] fltKind = "path" ->
             \E k \in 1..Len(t.paths) :
                 \E n \in 0..Len(t.paths[k]) :
                     /\ n = Len(fltArg.pathPrefix)
                     /\ \A c \in 1..n : t.paths[k][c] = fltArg.pathPrefix[c]
      [] fltKind = "branch" -> t.branch = fltArg.branch

\* C23: each filter returns exactly the todos of its input that satisfy its
\* predicate (status equal; a path with the argument as a literal prefix;
\* branch equal), each once, in the order of the input, and the todos it
\* returns are those of the input as they are.
C23_FiltersSelect ==
    fltPc = "done" =>
        /\ \A k \in 1..Len(fltOut) :
               /\ fltOut[k].id \in 1..Len(fltTodos)
               /\ fltOut[k] = fltTodos[fltOut[k].id]
        /\ \A k, l \in 1..Len(fltOut) : k < l => fltOut[k].id < fltOut[l].id
        /\ {fltOut[k].id : k \in 1..Len(fltOut)}
               = {i \in 1..Len(fltTodos) : FilterHolds(fltTodos[i])}

\* C23 witness: the path filter with "a" returned the todo with "a/b" and
\* the todo with both "ab" and "a/b" once each, and not the todo with "b".
C23_Witness ==
    /\ fltPc = "done"
    /\ fltKind = "path"
    /\ fltArg.pathPrefix = FilterPathA
    /\ Len(fltTodos) = 3
    /\ fltTodos[1].paths = <<FilterPathB, FilterPathAB>>
    /\ fltTodos[2].paths = <<FilterPathB>>
    /\ fltTodos[3].paths = <<FilterPathAb, FilterPathAB>>
    /\ Len(fltOut) = 2
    /\ fltOut[1].id = 1
    /\ fltOut[2].id = 3

(***************************************************************************)
(* Properties of SaveTodos and LoadTodos.                                  *)
(***************************************************************************)
\* C24: LoadTodos after SaveTodos returns a collection of the same length
\* and order in which every todo has the id, text, status, priority, paths,
\* branch, commit and meta of the one saved; with no todos.json it returns
\* the empty collection and no error; a bare array of todos loads to the
\* todos the enveloped document with that array loads to.
C24_SaveLoadRoundTrip ==
    /\ rtPc = "reloaded" =>
          /\ ~rtLoaded.err
          /\ Len(rtLoaded.todos) = Len(rtTodos)
          /\ \A i \in 1..Len(rtTodos) :
                 /\ rtLoaded.todos[i].id = rtTodos[i].id
                 /\ rtLoaded.todos[i].text = rtTodos[i].text
                 /\ rtLoaded.todos[i].status = rtTodos[i].status
                 /\ rtLoaded.todos[i].priority = rtTodos[i].priority
                 /\ rtLoaded.todos[i].paths = rtTodos[i].paths
                 /\ rtLoaded.todos[i].branch = rtTodos[i].branch
                 /\ rtLoaded.todos[i].commit = rtTodos[i].commit
                 /\ rtLoaded.todos[i].source = rtTodos[i].source
    /\ (rtPc = "loaded" /\ rtFile.form = "missing") =>
          rtLoaded = [todos |-> <<>>, err |-> FALSE]
    /\ (rtPc = "loaded" /\ rtFile.form = "array") =>
          rtLoaded = LoadTodosJSON([rtFile EXCEPT !.form = "envelope"])

(***************************************************************************)
(* Properties of FindProjectRoot.                                          *)
(***************************************************************************)
\* the depths of the start directory and its ancestors that hold a .todos
\* directory
MarkedDepths == {d \in 0..Len(startPath.abs) : markers[d + 1] = "dir"}

\* C25: FindProjectRoot returns for every start directory; what it returns
\* is the deepest of the start directory and its ancestors that holds a
\* .todos directory, or ProjectNotFound with the path it was called with
\* when none does; and no step changes what is on disk.
C25_FindProjectRoot ==
    /\ <>(rootPc = "done")
    /\ [](rootPc = "done" /\ ~startPath.absErr =>
            IF MarkedDepths = {}
            THEN rootRet = [root |-> <<>>, err |-> "ProjectNotFound",
                            searchPath |-> startPath.arg]
            ELSE /\ rootRet.err = ""
                 /\ rootRet.root = SubSeq(startPath.abs, 1, Len(rootRet.root))
                 /\ Len(rootRet.root) \in MarkedDepths
                 /\ \A d \in MarkedDepths : d <= Len(rootRet.root))
    /\ [][markers' = markers]_vars

\* C25: the call returned an ancestor above a start directory that holds
\* .todos only as a file
C25_Witness ==
    /\ rootPc = "done"
    /\ rootRet.err = ""
    /\ Len(rootRet.root) < Len(startPath.abs)
    /\ markers[Len(startPath.abs) + 1] = "file"

(***************************************************************************)
(* Properties of normalizePaths.                                           *)
(***************************************************************************)
\* the positions of the commas of v, with 0 before and Len(v) + 1 after
Cuts(v) == {0, Len(v) + 1} \cup {q \in 1..Len(v) : v[q] = ","}

\* the k-th piece of v: what stands between the k-th and the next cut
PieceAt(v, k) ==
    LET from == CHOOSE q \in Cuts(v) : Cardinality({c \in Cuts(v) : c < q}) = k - 1
        to == CHOOSE q \in Cuts(v) : Cardinality({c \in Cuts(v) : c < q}) = k
    IN SubSeq(v, from + 1, to - 1)

\* entry and piece number of the pieces that are not empty once trimmed
KeptPieces(raw) ==
    UNION {{<<i, k>> : k \in {n \in 1..(Cardinality(Cuts(raw[i])) - 1) :
                                   TrimSpace(PieceAt(raw[i], n)) # <<>>}} :
           i \in 1..Len(raw)}

\* the place of a kept piece in input order
PlaceOf(raw, q) ==
    1 + Cardinality({r \in KeptPieces(raw) : r[1] < q[1] \/ (r[1] = q[1] /\ r[2] < q[2])})

\* C26: normalizePaths returns the pieces between the commas of its
\* entries, trimmed, without those that are empty after trimming, in input
\* order; the same paths in one comma-separated value, or padded with
\* spaces, give the same result; entries of only spaces and commas give
\* the empty result; and normalizing the result returns it unchanged.
C26_NormalizePaths ==
    /\ npPc \in {"done", "other", "twice"} =>
          /\ Len(npOut) = Cardinality(KeptPieces(npRaw))
          /\ \A q \in KeptPieces(npRaw) :
                 npOut[PlaceOf(npRaw, q)] = TrimSpace(PieceAt(npRaw[q[1]], q[2]))
          /\ (\A i \in 1..Len(npRaw) : \A k \in 1..Len(npRaw[i]) : npRaw[i][k] \in {" ", ","})
                 => npOut = <<>>
    /\ npPc \in {"other", "twice"} =>
          /\ npOther.joined = npOut
          /\ npOther.padded = npOut
    /\ npPc = "twice" => npAgain = npOut

\* C26: two padded values, one with two paths and a trailing comma, were
\* normalized to three paths, and the result was normalized again
C26_Witness ==
    /\ npPc = "twice"
    /\ Len(npRaw) = 2
    /\ Len(npOut) = 3
    /\ \E i \in 1..2 : Len(npRaw[i]) = 9

(***************************************************************************)
(* Properties of a session on a filtered list.                             *)
(***************************************************************************)
\* C27: the first toggle or confirmed delete of a session keeps in
\* todos.json every todo that the filter of `todo list` left out of the
\* session: each todo of the file that is not in the session's collection
\* is in the file after the step as it was before.
C27_FilteredOutSurvive ==
    [][(pc \in {"Browsing", "ConfirmingDelete"} /\ saved = <<>>) =>
          \A i \in 1..Len(disk) :
              (\A j \in 1..Len(todos) : todos[j].id # disk[i].id) =>
                  \E k \in 1..Len(disk') : disk'[k] = disk[i]]_vars

(***************************************************************************)
(* Properties of `todo delete`.                                            *)
(***************************************************************************)
\* C28: a `todo delete` that succeeded removed from todos.json the todo its
\* token resolved to and no other, and the text it printed as deleted is
\* the text of that todo, wherever the todo stood.
C28_DeleteReportsRemoved ==
    (rdPc = "done" /\ rdOut.err = "" /\ rdTarget >= 0) =>
        /\ disk = SubSeq(rdBefore, 1, rdTarget) \o SubSeq(rdBefore, rdTarget + 2, Len(rdBefore))
        /\ rdOut.text = rdBefore[rdTarget + 1].text

(***************************************************************************)
(* Properties of a session next to another process.                        *)
(***************************************************************************)
\* C29: a todo that another process wrote to todos.json while the session
\* is open is in todos.json after every key the session handles, a toggle
\* and a confirmed delete included.
C29_OtherWriterSurvives ==
    [][(pc \in {"Browsing", "ConfirmingDelete"}
        /\ \E i \in 1..Len(disk) : disk[i].id = OtherId) =>
          \E k \in 1..Len(disk') : disk'[k].id = OtherId]_vars

(***************************************************************************)
(* Properties of the commands that fail.                                   *)
(***************************************************************************)
\* the step wrote nothing to todos.json
Unwritten == disk' = disk /\ cmdIdx' = 0

\* the step returned an error and wrote nothing
Rejected == Unwritten /\ cmdRet' = "error"

\* the flags of a `todo edit` that make it fail
EditFails(changed, editText, editPriority, editStatus) ==
    \/ "text" \in changed /\ TrimSpace(editText) = <<>>
    \/ "priority" \in changed /\ ~PriorityIsValid(ToLower(editPriority))
    \/ "status" \in changed /\ ~StatusIsValid(ToLower(editStatus))
    \/ changed = {}

\* the commands of the command line that write todos.json
CliCommands == {"add", "edit", "status", "done", "delete"}

\* C30: a command of the command line that returns an error leaves
\* todos.json as it was; a done, delete or status whose token resolves to
\* no todo, a status with an invalid status and an add with a blank text or
\* an invalid priority do return an error; a done on a todo that is done
\* returns without error and writes nothing, and a status with the status
\* the todo has writes nothing; and on every store an edit whose token
\* resolves to no todo, or with an invalid status, an invalid priority, a
\* blank text or no flag, whatever its other flags are, ends in an error
\* before it calls SaveTodos.
C30_FailuresWriteNothing ==
    /\ [][/\ (cmd' \in CliCommands /\ cmdRet' = "error") => Unwritten
          /\ cmd' = "done" =>
               \A token \in CmdTokens :
                   LET idx == FindTodoByIDOrIndex(disk, token)
                   IN /\ idx = -1 => (Rejected \/ ~Finish("done", runDone(disk, token, now)))
                      /\ (idx # -1 /\ disk[idx + 1].status = StatusDone) =>
                            ((Unwritten /\ cmdRet' = "ok")
                             \/ ~Finish("done", runDone(disk, token, now)))
          /\ cmd' = "delete" =>
               \A token \in CmdTokens :
                   FindTodoByIDOrIndex(disk, token) = -1 =>
                       (Rejected \/ ~Finish("delete", runDelete(disk, token)))
          /\ cmd' = "status" =>
               \A token \in CmdTokens, arg \in StatusArgs :
                   LET idx == FindTodoByIDOrIndex(disk, token)
                   IN /\ (idx = -1 \/ ~StatusIsValid(ToLower(arg))) =>
                            (Rejected \/ ~Finish("status", runStatus(disk, token, arg, now)))
                      /\ (idx # -1 /\ disk[idx + 1].status = ToLower(arg)) =>
                            (Unwritten \/ ~Finish("status", runStatus(disk, token, arg, now)))
          /\ cmd' = "add" =>
               \A args \in AddArgs, pathFlagUsed \in BOOLEAN, addPriority \in AddPriorities :
                   (TrimSpace(Join(args)) = <<>> \/ ~PriorityIsValid(addPriority)) =>
                       (Rejected \/ ~Finish("add", runAdd(disk, args, pathFlagUsed,
                                                          addPriority, StoreId(Len(disk) + 1),
                                                          now)))]_vars
    /\ [](\A token \in CmdTokens, changed \in SUBSET {"text", "priority", "status"} :
            \A editText \in IF "text" \in changed THEN EditTexts ELSE {<<>>},
               editPriority \in IF "priority" \in changed THEN EditPriorities ELSE {""},
               editStatus \in IF "status" \in changed THEN EditStatuses ELSE {""} :
                 (FindTodoByIDOrIndex(disk, token) = -1
                  \/ EditFails(changed, editText, editPriority, editStatus)) =>
                     LET r == runEdit(disk, token, changed, editText, editPriority,
                                      editStatus, now)
                     IN r.err /\ ~r.save)

\* C30: an edit of a todo that is there was rejected
C30_Witness ==
    /\ cmd = "edit"
    /\ cmdRet = "error"
    /\ Len(disk) = 1

(***************************************************************************)
(* Properties of `todo doctor`.                                            *)
(***************************************************************************)
\* C7: after `todo doctor --fix` has completed, todos.json holds no todo
\* whose text is blank, no two todos with the same trimmed text and no path
\* that does not exist on disk.
C7_FixPersistsCleaned ==
    (doctorPc = "done" /\ doctorFix /\ doctorRet = "ok") =>
        /\ \A i \in 1..Len(disk) : TrimSpace(disk[i].text) # <<>>
        /\ \A i, j \in 1..Len(disk) :
             i # j => TrimSpace(disk[i].text) # TrimSpace(disk[j].text)
        /\ \A i \in 1..Len(disk) :
             \A k \in 1..Len(disk[i].paths) : disk[i].paths[k] \in ExistingFiles

(***************************************************************************)
(* Properties of the CLI and web operations.                               *)
(***************************************************************************)
\* C8: whatever operations have run on an initialized project, every
\* persisted todo has a status among open, done, blocked, waiting,
\* tech-debt and a priority among low, medium, high (so a request with a
\* value outside them cannot have been stored).
C8_PersistedEnumerations ==
    \A i \in 1..Len(disk) :
        /\ disk[i].status \in {"open", "done", "blocked", "waiting", "tech-debt"}
        /\ disk[i].priority \in {"low", "medium", "high"}

\* C9: after a successful create or edit (CLI add, CLI edit, web POST, web
\* PUT), the stored text of the todo it wrote is non-empty once trimmed.
C9_StoredTextNotBlank ==
    (/\ cmd \in {"add", "edit", "webCreate", "webUpdate"}
     /\ cmdRet = "ok"
     /\ cmdIdx > 0) => TrimSpace(disk[cmdIdx].text) # <<>>

====
